---- MODULE Spec2Model ----
(***************************************************************************)
(* AI OCR Formatter (Obsidian plugin): the OCR -> image persistence ->     *)
(* formatting pipeline of src/src/main.ts.                                 *)
(*                                                                         *)
(* Texts are sequences of atoms.  An atom is one character ("a", " ",      *)
(* "\\" for a backslash, "\"" for a double quote) or a run of characters   *)
(* that none of the program's patterns can match inside and that is        *)
(* written as one atom for brevity:                                        *)
(*   "LF" U+000A     "NBSP" U+00A0    "U2003" U+2003   "U200B" U+200B      *)
(*   "TAB" U+0009    "CR" U+000D      "FF" U+000C      "BS" U+0008         *)
(*   "VT" U+000B     "GRAVE" U+0060   "UFEFF" U+FEFF   "U1680" U+1680      *)
(*   "U202F" U+202F  "U205F" U+205F   "U3000" U+3000   "U2028" U+2028      *)
(*   "U2029" U+2029, and likewise "U2000" .. "U200A"                       *)
(*   "FENCE" three backticks (a code fence), "json" the fence tag, "---"   *)
(*   the rule of the page separator, "<think>", "<THINK>", "</think>",     *)
(*   "</Think>" the markers of a reasoning block, "formatted_markdown",    *)
(*   "confidence_score", "true", "false", "null" the words of the JSON     *)
(*   texts, "data:" the scheme of a data URL, and the image payloads.      *)
(* The text a sequence stands for is the concatenation of its atoms.       *)
(***************************************************************************)
EXTENDS Integers, Sequences, FiniteSets, Bags, TLC

\* ------------------------------------------------------------------ texts

\* String.prototype.trim and the regular expression class \s remove the same
\* characters: white space and line terminators.  U+200B is not one of them.
WhiteSpace ==
    {" ", "TAB", "LF", "VT", "FF", "CR", "NBSP", "U1680", "U2000", "U2001", "U2002",
     "U2003", "U2004", "U2005", "U2006", "U2007", "U2008", "U2009", "U200A",
     "U2028", "U2029", "U202F", "U205F", "U3000", "UFEFF"}

\* The line terminators, which the regular expression "." does not match.
LineTerminators == {"LF", "CR", "U2028", "U2029"}

RECURSIVE TrimStart(_)
TrimStart(s) ==
    IF s = <<>> THEN <<>>
    ELSE IF Head(s) \in WhiteSpace THEN TrimStart(Tail(s))
    ELSE s

RECURSIVE TrimEnd(_)
TrimEnd(s) ==
    IF s = <<>> THEN <<>>
    ELSE IF s[Len(s)] \in WhiteSpace THEN TrimEnd(SubSeq(s, 1, Len(s) - 1))
    ELSE s

\* String.prototype.trim
Trim(s) == TrimEnd(TrimStart(s))

\* s.startsWith(p), and the same test at a position i (1-based)
MatchAt(s, i, p) ==
    /\ i >= 1
    /\ i + Len(p) - 1 <= Len(s)
    /\ SubSeq(s, i, i + Len(p) - 1) = p

StartsWith(s, p) == MatchAt(s, 1, p)

EndsWith(s, p) == MatchAt(s, Len(s) - Len(p) + 1, p)

\* The least position j >= i where one of the patterns of ps starts, or 0.
RECURSIVE FindFrom(_, _, _)
FindFrom(s, i, ps) ==
    IF i > Len(s) THEN 0
    ELSE IF \E p \in ps : MatchAt(s, i, p) THEN i
    ELSE FindFrom(s, i + 1, ps)

Drop(s, n) == SubSeq(s, n + 1, Len(s))

\* The characters of an atom: those of the run it stands for, or itself.
Characters(a) ==
    CASE
         a = "formatted_markdown" ->
            <<"f", "o", "r", "m", "a", "t", "t", "e", "d", "_", "m", "a", "r", "k",
              "d", "o", "w", "n">>
      [] a = "confidence_score" ->
            <<"c", "o", "n", "f", "i", "d", "e", "n", "c", "e", "_", "s", "c", "o",
              "r", "e">>
      [] a = "true" ->
            <<"t", "r", "u", "e">>
      [] a = "false" ->
            <<"f", "a", "l", "s", "e">>
      [] a = "null" ->
            <<"n", "u", "l", "l">>
      [] a = "json" ->
            <<"j", "s", "o", "n">>
      [] a = "notes" ->
            <<"n", "o", "t", "e", "s">>
      [] a = "---" ->
            <<"-", "-", "-">>
      [] a = "<think>" ->
            <<"<", "t", "h", "i", "n", "k", ">">>
      [] a = "<THINK>" ->
            <<"<", "T", "H", "I", "N", "K", ">">>
      [] a = "</think>" ->
            <<"<", "/", "t", "h", "i", "n", "k", ">">>
      [] a = "</Think>" ->
            <<"<", "/", "T", "h", "i", "n", "k", ">">>
      [] a = "data:" ->
            <<"d", "a", "t", "a", ":">>
      [] a = "__proto__" ->
            <<"_", "_", "p", "r", "o", "t", "o", "_", "_">>
      [] a = "FENCE" ->
            <<"GRAVE", "GRAVE", "GRAVE">>
      [] OTHER -> <<a>>

\* The text of a sequence of atoms, character by character.
RECURSIVE Spell(_)
Spell(s) == IF s = <<>> THEN <<>> ELSE Characters(Head(s)) \o Spell(Tail(s))

\* --------------------------------------------- cleanLatexDelimiters (pure)

\* text.replace(/\u00A0/g, ' ')
ScrubNbsp(c) == IF c = "NBSP" THEN " " ELSE c

\* The members of [\u2000-\u200B\u202F\u205F\u3000] among the atoms.
UnicodeSpaces ==
    {"U2000", "U2001", "U2002", "U2003", "U2004", "U2005", "U2006", "U2007", "U2008",
     "U2009", "U200A", "U200B", "U202F", "U205F", "U3000"}

\* ScrubSpaces over the white space of \s alone: U+200B stays.
ScrubSpacesOfTrim(c) == IF c \in UnicodeSpaces \cap WhiteSpace THEN " " ELSE c

\* text.replace(/[\u2000-\u200B\u202F\u205F\u3000]/g, ' ')
ScrubSpaces(c) == IF c \in UnicodeSpaces THEN " " ELSE c

BlockOpen == <<"\\", "[">>
BlockClose == <<"\\", "]">>
InlineOpen == <<"\\", "(">>
InlineClose == <<"\\", ")">>

\* ReplaceBlocks with a greedy capture: up to the last closing delimiter.
RECURSIVE ReplaceBlocksGreedy(_)
ReplaceBlocksGreedy(s) ==
    LET i == FindFrom(s, 1, {BlockOpen})
        closes == { k \in (i + 2)..Len(s) : MatchAt(s, k, BlockClose) }
        j == IF i = 0 \/ closes = {} THEN 0
             ELSE CHOOSE k \in closes : \A c \in closes : c <= k
    IN  IF i = 0 \/ j = 0 THEN s
        ELSE SubSeq(s, 1, i - 1)
             \o <<"$", "$", "LF">> \o Trim(Trim(SubSeq(s, i + 2, j - 1)))
             \o <<"LF", "$", "$">>
             \o ReplaceBlocksGreedy(Drop(s, j + 1))

\* text.replace(/\\\[\s*([\s\S]*?)\s*\\\]/g, ...): the leftmost opening
\* delimiter that has a closing delimiter after it is matched up to the first
\* such closing delimiter; the capture is what lies between without the white
\* space at its ends; the scan goes on after the match.
RECURSIVE ReplaceBlocks(_)
ReplaceBlocks(s) ==
    LET i == FindFrom(s, 1, {BlockOpen})
        j == IF i = 0 THEN 0 ELSE FindFrom(s, i + 2, {BlockClose})
    IN  IF i = 0 \/ j = 0 THEN s
        ELSE SubSeq(s, 1, i - 1)
             \o <<"$", "$", "LF">> \o Trim(Trim(SubSeq(s, i + 2, j - 1)))
             \o <<"LF", "$", "$">>
             \o ReplaceBlocks(Drop(s, j + 1))

HasLineTerminator(s) == \E k \in 1..Len(s) : s[k] \in LineTerminators

\* text.replace(/\\\(\s*(.*?)\s*\\\)/g, ...): "." matches no line terminator,
\* \s does.  An opening delimiter matches when what lies between it and the
\* first closing delimiter after it is white space, text without a line
\* terminator, white space; otherwise the scan goes on one character further.
RECURSIVE ReplaceInlineFrom(_, _)
ReplaceInlineFrom(s, k) ==
    LET i == FindFrom(s, k, {InlineOpen})
        j == IF i = 0 THEN 0 ELSE FindFrom(s, i + 2, {InlineClose})
    IN  IF i = 0 \/ j = 0 THEN SubSeq(s, k, Len(s))
        ELSE IF HasLineTerminator(Trim(SubSeq(s, i + 2, j - 1)))
             THEN SubSeq(s, k, i) \o ReplaceInlineFrom(s, i + 1)
        ELSE SubSeq(s, k, i - 1)
             \o <<"$">> \o Trim(Trim(SubSeq(s, i + 2, j - 1))) \o <<"$">>
             \o ReplaceInlineFrom(s, j + 2)

\* Lines 386-387 over the whole text.
ScrubText(s) == [i \in 1..Len(s) |-> ScrubSpaces(ScrubNbsp(s[i]))]

cleanLatexDelimiters(text) ==
    IF text = <<>> THEN text
    ELSE ReplaceInlineFrom(ReplaceBlocks(ScrubText(text)), 1)

\* ------------------------------------- formatText: cleaning the completion

ThinkOpen == {<<"<think>">>, <<"<THINK>">>}
ThinkClose == {<<"</think>">>, <<"</Think>">>}

\* StripThink without the flag i: the markers in lower case only.
RECURSIVE StripThinkCaseSensitive(_)
StripThinkCaseSensitive(s) ==
    LET i == FindFrom(s, 1, {<<"<think>">>})
        j == IF i = 0 THEN 0 ELSE FindFrom(s, i + 1, {<<"</think>">>})
    IN  IF i = 0 \/ j = 0 THEN s
        ELSE SubSeq(s, 1, i - 1) \o StripThinkCaseSensitive(Drop(s, j))

\* content.replace(/<think>[\s\S]*?<\/think>/gi, "")
RECURSIVE StripThink(_)
StripThink(s) ==
    LET i == FindFrom(s, 1, ThinkOpen)
        j == IF i = 0 THEN 0 ELSE FindFrom(s, i + 1, ThinkClose)
    IN  IF i = 0 \/ j = 0 THEN s
        ELSE SubSeq(s, 1, i - 1) \o StripThink(Drop(s, j))

Fence == <<"FENCE">>

\* StripFences that removes the fences only as a pair.
StripFencesPaired(s) ==
    IF Len(s) >= 2 /\ StartsWith(s, Fence) /\ EndsWith(s, Fence)
    THEN LET a == IF StartsWith(s, Fence \o <<"json">>) THEN TrimStart(Drop(s, 2))
                  ELSE Drop(s, 1)
         IN  IF EndsWith(a, Fence) THEN SubSeq(a, 1, Len(a) - 1) ELSE a
    ELSE s

\* content.replace(/^FENCEjson\s*/, "").replace(/^FENCE/, "").replace(/FENCE$/, "")
StripFences(s) ==
    LET a == IF StartsWith(s, Fence \o <<"json">>) THEN TrimStart(Drop(s, 2)) ELSE s
        b == IF StartsWith(a, Fence) THEN Drop(a, 1) ELSE a
    IN  IF EndsWith(b, Fence) THEN SubSeq(b, 1, Len(b) - 1) ELSE b

\* The text formatText parses: lines 321-325.
CleanContent(raw) == StripFences(Trim(StripThink(raw)))

\* --------------------------------------------------- JSON.parse (line 328)
\* A parsed value is [t |-> its type, v |-> its content]: the characters of a
\* string, the lexeme of a number, the members [k, val] of an object in
\* order, the elements of an array.  A parse step answers [ok, val, pos]:
\* whether it parsed, the value, and the position after it.  A number is
\* kept as its lexeme.

JsonWhiteSpace == {" ", "LF", "TAB", "CR"}

Digits == {"0", "1", "2", "3", "4", "5", "6", "7", "8", "9"}

JsonNull == [t |-> "null", v |-> <<>>]

ParseFail == [ok |-> FALSE, val |-> JsonNull, pos |-> 0]

ParseOk(val, pos) == [ok |-> TRUE, val |-> val, pos |-> pos]

RECURSIVE SkipWS(_, _)
SkipWS(s, i) ==
    IF i <= Len(s) /\ s[i] \in JsonWhiteSpace THEN SkipWS(s, i + 1) ELSE i

At(s, i) == IF i >= 1 /\ i <= Len(s) THEN s[i] ELSE "EOF"

\* The character a two-character escape \c stands for, "EOF" when c is none.
Unescape(c) ==
    CASE c = "\"" -> "\""
      [] c = "\\" -> "\\"
      [] c = "/"  -> "/"
      [] c = "b"  -> "BS"
      [] c = "f"  -> "FF"
      [] c = "n"  -> "LF"
      [] c = "r"  -> "CR"
      [] c = "t"  -> "TAB"
      [] OTHER    -> "EOF"

\* The hexadecimal digits in the order of their values, and the capitals.
HexOrder ==
    <<"0", "1", "2", "3", "4", "5", "6", "7", "8", "9", "a", "b", "c", "d", "e", "f">>

HexCapitals == <<"A", "B", "C", "D", "E", "F">>

HexDigits == {HexOrder[k] : k \in 1..Len(HexOrder)}
                \cup {HexCapitals[k] : k \in 1..Len(HexCapitals)}

HexValue(c) ==
    IF \E k \in 1..Len(HexCapitals) : HexCapitals[k] = c
    THEN 9 + (CHOOSE k \in 1..Len(HexCapitals) : HexCapitals[k] = c)
    ELSE (CHOOSE k \in 1..Len(HexOrder) : HexOrder[k] = c) - 1

\* The characters U+0020 .. U+007E in the order of their code units.
PrintableAscii ==
    <<" ", "!", "\"", "#", "$", "%", "&", "'", "(", ")", "*", "+", ",", "-", ".", "/",
      "0", "1", "2", "3", "4", "5", "6", "7", "8", "9", ":", ";", "<", "=", ">", "?",
      "@", "A", "B", "C", "D", "E", "F", "G", "H", "I", "J", "K", "L", "M", "N", "O",
      "P", "Q", "R", "S", "T", "U", "V", "W", "X", "Y", "Z", "[", "\\", "]", "^", "_",
      "GRAVE", "a", "b", "c", "d", "e", "f", "g", "h", "i", "j", "k", "l", "m", "n", "o",
      "p", "q", "r", "s", "t", "u", "v", "w", "x", "y", "z", "{", "|", "}", "~">>

\* The characters U+2000 .. U+200B in the order of their code units.
GeneralPunctuationSpaces ==
    <<"U2000", "U2001", "U2002", "U2003", "U2004", "U2005", "U2006", "U2007", "U2008",
      "U2009", "U200A", "U200B">>

\* The atom of the code unit n; a code unit that has no atom of its own is
\* written as the tuple of its number.
FromCodeUnit(n) ==
    CASE n >= 32 /\ n <= 126 -> PrintableAscii[n - 31]
      [] n >= 8192 /\ n <= 8203 -> GeneralPunctuationSpaces[n - 8191]
      [] n = 8 -> "BS"
      [] n = 9 -> "TAB"
      [] n = 10 -> "LF"
      [] n = 11 -> "VT"
      [] n = 12 -> "FF"
      [] n = 13 -> "CR"
      [] n = 160 -> "NBSP"
      [] n = 5760 -> "U1680"
      [] n = 8232 -> "U2028"
      [] n = 8233 -> "U2029"
      [] n = 8239 -> "U202F"
      [] n = 8287 -> "U205F"
      [] n = 12288 -> "U3000"
      [] n = 65279 -> "UFEFF"
      [] OTHER -> ToString(<<n>>)

\* U+0000 .. U+001F, which a JSON string holds only when escaped.
ControlCharacters == {FromCodeUnit(n) : n \in 0..31}

\* The character of \uXXXX, from the position of the first X; "EOF" when
\* four hexadecimal digits do not follow.
UnicodeEscape(s, i) ==
    IF i + 3 <= Len(s) /\ \A k \in i..(i + 3) : s[k] \in HexDigits
    THEN FromCodeUnit(4096 * HexValue(s[i]) + 256 * HexValue(s[i + 1])
                      + 16 * HexValue(s[i + 2]) + HexValue(s[i + 3]))
    ELSE "EOF"

\* A string, from the position after its opening quote.
RECURSIVE ParseString(_, _, _)
ParseString(s, i, acc) ==
    LET c == At(s, i)
    IN  CASE c = "EOF" -> ParseFail
          [] c = "\"" -> ParseOk([t |-> "string", v |-> acc], i + 1)
          [] c = "\\" /\ At(s, i + 1) = "u" ->
                IF UnicodeEscape(s, i + 2) = "EOF" THEN ParseFail
                ELSE ParseString(s, i + 6, Append(acc, UnicodeEscape(s, i + 2)))
          [] c = "\\" /\ At(s, i + 1) # "u" ->
                IF Unescape(At(s, i + 1)) = "EOF" THEN ParseFail
                ELSE ParseString(s, i + 2, Append(acc, Unescape(At(s, i + 1))))
          [] c \in ControlCharacters -> ParseFail
          [] OTHER -> ParseString(s, i + 1, Append(acc, c))

\* The position after the digits that start at i.
RECURSIVE SkipDigits(_, _)
SkipDigits(s, i) == IF At(s, i) \in Digits THEN SkipDigits(s, i + 1) ELSE i

\* -?(0|[1-9][0-9]*)(\.[0-9]+)?([eE][+-]?[0-9]+)?
ParseNumber(s, i) ==
    LET a == IF At(s, i) = "-" THEN i + 1 ELSE i
        b == IF At(s, a) = "0" THEN a + 1 ELSE SkipDigits(s, a)
        c == IF At(s, b) = "." THEN SkipDigits(s, b + 1) ELSE b
        d == IF At(s, c + 1) \in {"+", "-"} THEN c + 2 ELSE c + 1
        e == IF At(s, c) \in {"e", "E"} THEN SkipDigits(s, d) ELSE c
    IN  IF b = a \/ (At(s, b) = "." /\ c = b + 1)
           \/ (At(s, c) \in {"e", "E"} /\ e = d)
        THEN ParseFail
        ELSE ParseOk([t |-> "number", v |-> SubSeq(s, i, e - 1)], e)

RECURSIVE ParseValue(_, _)
RECURSIVE ParseMembers(_, _, _)
RECURSIVE ParseElements(_, _, _)

\* The members of an object, from the position of the first key's quote.
ParseMembers(s, i, acc) ==
    LET After(got, d) ==
            CASE At(s, d) = "," -> ParseMembers(s, d + 1, got)
              [] At(s, d) = "}" -> ParseOk([t |-> "object", v |-> got], d + 1)
              [] OTHER -> ParseFail
        WithValue(key, val) ==
            IF ~val.ok THEN ParseFail
            ELSE After(Append(acc, [k |-> key.val.v, val |-> val.val]),
                       SkipWS(s, val.pos))
        Colon(key, c) ==
            WithValue(key, IF key.ok /\ At(s, c) = ":" THEN ParseValue(s, c + 1)
                           ELSE ParseFail)
        WithKey(key) == Colon(key, IF key.ok THEN SkipWS(s, key.pos) ELSE 0)
        Key(k) == WithKey(IF At(s, k) = "\"" THEN ParseString(s, k + 1, <<>>)
                          ELSE ParseFail)
    IN  Key(SkipWS(s, i))

\* The elements of an array, from the position of the first element.
ParseElements(s, i, acc) ==
    LET After(got, d) ==
            CASE At(s, d) = "," -> ParseElements(s, d + 1, got)
              [] At(s, d) = "]" -> ParseOk([t |-> "array", v |-> got], d + 1)
              [] OTHER -> ParseFail
        WithValue(val) ==
            IF ~val.ok THEN ParseFail
            ELSE After(Append(acc, val.val), SkipWS(s, val.pos))
    IN  WithValue(ParseValue(s, i))

ParseValue(s, i) ==
    LET Value(j, c) ==
          CASE c = "{" ->
                IF At(s, SkipWS(s, j + 1)) = "}"
                THEN ParseOk([t |-> "object", v |-> <<>>], SkipWS(s, j + 1) + 1)
                ELSE ParseMembers(s, j + 1, <<>>)
          [] c = "[" ->
                IF At(s, SkipWS(s, j + 1)) = "]"
                THEN ParseOk([t |-> "array", v |-> <<>>], SkipWS(s, j + 1) + 1)
                ELSE ParseElements(s, j + 1, <<>>)
          [] c = "\"" -> ParseString(s, j + 1, <<>>)
          [] c = "-" \/ c \in Digits -> ParseNumber(s, j)
          [] \E w \in {"true", "false", "null"} : MatchAt(s, j, Characters(w)) ->
                LET w == CHOOSE w \in {"true", "false", "null"} :
                            MatchAt(s, j, Characters(w))
                IN  ParseOk([t |-> w, v |-> <<>>], j + Len(Characters(w)))
          [] OTHER -> ParseFail
        From(j) == Value(j, At(s, j))
    IN  From(SkipWS(s, i))

\* JSON.parse(content): one value, white space around it, nothing else.
\* The text is read character by character, so a name or a literal is the
\* same however the text writes it.
JSONParse(s) ==
    LET Whole(t, r) == IF r.ok /\ SkipWS(t, r.pos) = Len(t) + 1 THEN r ELSE ParseFail
        Text(t) == Whole(t, ParseValue(t, 1))
    IN  Text(Spell(s))

\* obj[key]: the last member of that name wins; [t |-> "undefined"] if none.
\* Names are compared as texts.
RECURSIVE Member(_, _, _)
Member(members, key, n) ==
    IF n = 0 THEN [t |-> "undefined", v |-> <<>>]
    ELSE IF Spell(members[n].k) = Spell(key) THEN members[n].val
    ELSE Member(members, key, n - 1)

\* SchemaAccepts with a confidence_score that must lie in [0, 1]: a number
\* whose lexeme is 0 or 1 or starts with "0.".
SchemaAcceptsRanged(val) ==
    /\ val.t = "object"
    /\ Member(val.v, <<"formatted_markdown">>, Len(val.v)).t = "string"
    /\ LET score == Member(val.v, <<"confidence_score">>, Len(val.v))
       IN  \/ score.t = "undefined"
           \/ /\ score.t = "number"
              /\ \/ score.v \in {<<"0">>, <<"1">>}
                 \/ (Len(score.v) > 2 /\ score.v[1] = "0" /\ score.v[2] = ".")

\* FormattedResponseSchema.parse(parsedJson) does not throw:
\* z.object({formatted_markdown: z.string(), confidence_score: z.number().optional()})
SchemaAccepts(val) ==
    /\ val.t = "object"
    /\ Member(val.v, <<"formatted_markdown">>, Len(val.v)).t = "string"
    /\ Member(val.v, <<"confidence_score">>, Len(val.v)).t \in {"number", "undefined"}

\* result.formatted_markdown of an accepted value
FormattedMarkdown(val) == Member(val.v, <<"formatted_markdown">>, Len(val.v)).v

\* ------------------------------------------------------------------ state

VARIABLES
    settings,   \* AIOcrFormatterPlugin.settings (lines 23-43)
    vault,      \* the host's files: path -> [type, data]
    statusBar,  \* the text of statusBarItem (lines 402-408)
    run,        \* the pipeline runs in flight: run id -> the run's record
    evaluation, \* a function applied on its own: [fn, arg, ret]
    currentPreset, \* AIOcrFormatterPlugin.currentPreset (line 65)
    modal,      \* OCRModal: fileData, fileMimeType (lines 516-517) and the
                \* files whose reader has not completed yet (line 820)
    scope       \* which inputs the environment draws from; never changes

vars == <<settings, vault, statusBar, run, evaluation, currentPreset, modal, scope>>

Runs == {"run1"}

\* An optional value: page.markdown, imageBase64, a response that may be null.
None == [some |-> FALSE, v |-> <<>>]
Some(x) == [some |-> TRUE, v |-> x]

\* A value a function settles with: a string, null, or an exception.
Pending == [ret |-> "pending", val |-> <<>>]
RetString(t) == [ret |-> "string", val |-> t]
RetNull == [ret |-> "null", val |-> <<>>]
RetThrow == [ret |-> "throw", val |-> <<>>]

\* JavaScript truthiness of a settled string | null: if (formatted), if (res)
Truthy(x) == x.ret = "string" /\ x.val # <<>>

\* setStatus(text), lines 402-404
setStatus(text) == IF text # "" THEN <<"STATUS_ICON", " ", text>> ELSE <<>>

\* clearStatus(), lines 406-408
clearStatus == setStatus("")

\* A remote call issued by a run, in the order of issue.
Call(op) ==
    [op |-> op, includeImageBase64 |-> FALSE, model |-> <<>>, system |-> <<>>, user |-> <<>>]

\* ----------------------------------------------------------------- inputs

\* With two runs in flight every request is answered with success unless
\* the state of the vault makes it fail: what a failing request does to a
\* run is the matter of the one-run specification.
Smooth == scope = "concurrent"

\* Whether a Markdown view is active when a run looks for one.
ActiveViews == IF Smooth THEN {TRUE} ELSE BOOLEAN

\* The largest number of pages of an OCR response.
MaxPages == 3

PageSeparator == <<"LF", "LF", "---", "LF", "LF">>

\* page.markdown of a page: absent, empty, white space only, text, text with
\* white space around it.
PageMarkdowns ==
    {None, Some(<<>>), Some(<<" ">>), Some(<<"A">>), Some(<<" ", "B", "LF">>)}

DataUrlPayload == <<"data:", "image/jpeg;base64", ",", "QUJD">>

\* page.images of a page: none, or four images: one sent as a data URL, one
\* with no payload, one plain payload, one whose payload is no base64 and
\* whose id is an array index.
PageImages ==
    { <<>>,
      << [id |-> <<"img-0.jpeg">>, imageBase64 |-> DataUrlPayload],
         [id |-> <<"img-1.jpeg">>, imageBase64 |-> <<>>],
         [id |-> <<"img-2.jpeg">>, imageBase64 |-> <<"QUJD">>],
         [id |-> <<"3">>, imageBase64 |-> <<"!">>] >> }

\* The service sends payloads only when includeImageBase64 was requested.
WithoutPayloads(images) ==
    [k \in 1..Len(images) |-> [images[k] EXCEPT !.imageBase64 = <<>>]]

PagesFor(include) ==
    { [markdown |-> m, images |-> IF include THEN i ELSE WithoutPayloads(i)] :
        m \in PageMarkdowns, i \in PageImages }

SeqsUpTo(S, n) == UNION { [1..k -> S] : k \in 0..n }

\* The responses of client.ocr.process: pages missing, or 0..MaxPages pages.
OcrResponses(include) ==
    {[hasPages |-> FALSE, pages |-> <<>>]}
    \cup { [hasPages |-> TRUE, pages |-> ps] : ps \in SeqsUpTo(PagesFor(include), MaxPages) }

\* A response of one page with one image.
BriefResponses(include) ==
    LET images == << [id |-> <<"img-2.jpeg">>, imageBase64 |-> <<"QUJD">>] >>
    IN  { [ hasPages |-> TRUE,
            pages |-> << [ markdown |-> Some(<<"A">>),
                           images |-> IF include THEN images
                                      ELSE WithoutPayloads(images) ] >> ] }

\* The responses a run may receive to a request sent with include.
OcrResponsesIn(include) ==
    IF scope = "concurrent" THEN BriefResponses(include) ELSE OcrResponses(include)

\* activeFile?.parent?.path || ""
BasePaths == {<<>>, <<"notes">>}

File(data) == [type |-> "file", data |-> data]
Folder == [type |-> "folder", data |-> <<>>]
Nothing == [type |-> "none", data |-> <<>>]

\* The vaults a run starts on.  In the first the image folder of "notes" is
\* there with an image of an earlier run in it, and a folder lies where an
\* image of "notes" itself would go; in the second a file lies where the
\* image folder would go.  Under the base path "" nothing is there yet.
InitialVaults ==
    { (<<"notes", "/", "assets">> :> Folder)
        @@ (<<"notes", "/", "assets", "/", "img-0.jpeg">> :> File(<<"T0xE">>))
        @@ (<<"notes", "/", "img-2.jpeg">> :> Folder),
      (<<"notes", "/", "assets">> :> File(<<"eA==">>)) }

\* app.vault.getAbstractFileByPath(path)
getAbstractFileByPath(v, path) == IF path \in DOMAIN v THEN v[path] ELSE Nothing

\* base64ToArrayBuffer(base64Data) does not throw
IsBase64(data) == \A k \in 1..Len(data) : data[k] # "!"

\* ------------------------------------ performMistralOCR: parsing (198-224)

\* The greatest array index, 2^32 - 2, in decimal digits.
MaxArrayIndex == <<"4", "2", "9", "4", "9", "6", "7", "2", "9", "4">>

\* A numeral is a text of decimal digits without a leading zero.
IsNumeral(id) ==
    /\ Len(id) >= 1
    /\ \A k \in 1..Len(id) : id[k] \in Digits
    /\ Len(id) = 1 \/ id[1] # "0"

\* a < b for two numerals.
NumeralLess(a, b) ==
    \/ Len(a) < Len(b)
    \/ /\ Len(a) = Len(b)
       /\ \E k \in 1..Len(a) :
             /\ HexValue(a[k]) < HexValue(b[k])
             /\ \A j \in 1..(k - 1) : a[j] = b[j]

\* The property keys that are array indices: the numerals up to 2^32 - 2.
IsArrayIndex(id) == IsNumeral(id) /\ ~NumeralLess(MaxArrayIndex, id)

\* images[imageName] = base64Data (line 217) on the object literal of line
\* 200, in the order in which Object.entries (line 248) lists the entries:
\* the ids that are array indices first, by their numbers, then the other
\* ids in the order in which they were first assigned.  An id already
\* there keeps its place.  The id __proto__ names the accessor of
\* Object.prototype, whose setter ignores a string: no entry is made.
PutImage(images, id, data) ==
    LET entry == [id |-> id, data |-> data]
        after == { k \in 1..Len(images) :
                     ~IsArrayIndex(images[k].id) \/ NumeralLess(id, images[k].id) }
        at == IF after = {} THEN Len(images) + 1
              ELSE CHOOSE k \in after : \A j \in after : k <= j
    IN  IF Spell(id) = Spell(<<"__proto__">>) THEN images
        ELSE IF \E k \in 1..Len(images) : images[k].id = id
        THEN [k \in 1..Len(images) |->
                IF images[k].id = id THEN [images[k] EXCEPT !.data = data] ELSE images[k]]
        ELSE IF IsArrayIndex(id)
        THEN SubSeq(images, 1, at - 1) \o <<entry>> \o SubSeq(images, at, Len(images))
        ELSE Append(images, entry)

\* base64Data.split(",")[1]: what lies between the first comma and the next
\* one; undefined (None) when there is no comma.
SplitSecond(data) ==
    LET i == FindFrom(data, 1, {<<",">>})
        j == IF i = 0 THEN 0 ELSE FindFrom(data, i + 1, {<<",">>})
    IN  IF i = 0 THEN None
        ELSE Some(SubSeq(data, i + 1, IF j = 0 THEN Len(data) ELSE j - 1))

\* ImagePayload without lines 213-215: the payload as it came.
ImagePayloadAsSent(imageBase64) == Some(imageBase64)

\* Lines 211-215: image.imageBase64 || "", without its data URL prefix.
ImagePayload(imageBase64) ==
    IF StartsWith(imageBase64, <<"data:">>) THEN SplitSecond(imageBase64)
    ELSE Some(imageBase64)

\* page.images.forEach, lines 209-219
RECURSIVE CollectImages(_, _, _)
CollectImages(list, k, images) ==
    IF k > Len(list) THEN images
    ELSE LET payload == ImagePayload(list[k].imageBase64)
         IN  CollectImages(list, k + 1,
                IF payload.some /\ payload.v # <<>>
                THEN PutImage(images, list[k].id, payload.v)
                ELSE images)

\* ParsePages with the separator put before every page, the first too.
RECURSIVE ParsePagesSeparatorFirst(_, _, _, _)
ParsePagesSeparatorFirst(pages, index, acc, extract) ==
    IF index >= Len(pages) THEN acc
    ELSE LET page == pages[index + 1]
             sep == acc.markdown \o PageSeparator
             md == sep \o (IF page.markdown.some THEN page.markdown.v ELSE <<>>)
             imgs == IF extract /\ Len(page.images) > 0
                     THEN CollectImages(page.images, 1, acc.images)
                     ELSE acc.images
         IN  ParsePagesSeparatorFirst(pages, index + 1,
                                      [markdown |-> md, images |-> imgs], extract)

\* ocrResponse.pages.forEach, lines 203-221; index is 0-based in the source.
RECURSIVE ParsePages(_, _, _, _)
ParsePages(pages, index, acc, extract) ==
    IF index >= Len(pages) THEN acc
    ELSE LET page == pages[index + 1]
             sep == IF index > 0 THEN acc.markdown \o PageSeparator ELSE acc.markdown
             md == sep \o (IF page.markdown.some THEN page.markdown.v ELSE <<>>)
             imgs == IF extract /\ Len(page.images) > 0
                     THEN CollectImages(page.images, 1, acc.images)
                     ELSE acc.images
         IN  ParsePages(pages, index + 1, [markdown |-> md, images |-> imgs], extract)

\* Lines 199-224: the OCRResult of a response.
ParseOcrResponse(resp, extract) ==
    LET start == [markdown |-> <<>>, images |-> <<>>]
        acc == IF resp.hasPages THEN ParsePages(resp.pages, 0, start, extract) ELSE start
    IN  [markdown |-> Trim(acc.markdown), images |-> acc.images]

\* ------------------------------------------------------- the steps of a run
\* A step works on m = [rec, status, vault]: the run's record, the status bar
\* and the vault, and answers what they are when the run next awaits.

Note(m, text) == [m EXCEPT !.rec.notices = Append(@, text)]
Goto(m, pc) == [m EXCEPT !.rec.pc = pc]
Status(m, text) == [m EXCEPT !.status = setStatus(text)]
Issue(m, call) == [m EXCEPT !.rec.calls = Append(@, call)]

\* getPresetContent has not settled.
NoPreset == [how |-> "pending", content |-> <<>>]

NewRun ==
    [ pc |-> "idle", kind |-> "none", caller |-> "none",
      basePath |-> <<>>, rawText |-> <<>>, customInstruction |-> <<>>, editor |-> FALSE,
      base64Data |-> <<>>, mimeType |-> <<>>, chosenPreset |-> "",
      modelOverride |-> None, provider |-> None, model |-> <<>>,
      presetName |-> "", preset |-> NoPreset, fmtError |-> <<>>,
      calls |-> <<>>, notices |-> <<>>,
      uploadedFile |-> "none", ocrResponse |-> None, ocrError |-> <<>>,
      ocrResult |-> [markdown |-> <<>>, images |-> <<>>],
      targetFolder |-> <<>>, saveIdx |-> 0, writeOp |-> "none",
      savedPaths |-> <<>>, writeLog |-> <<>>, saveError |-> <<>>,
      completion |-> None, fmtResult |-> Pending,
      result |-> Pending, error |-> <<>>, inserted |-> None,
      outputPc |-> "none", outputPath |-> <<>>, outputContent |-> <<>> ]

\* performMistralOCR without the test of lines 145-147.
performMistralOCRUngated(m) ==
    Goto(Issue(Note(Status(m, "Uploading to Mistral..."),
                    "cloud_upload Uploading to Mistral..."),
               Call("files.upload")),
         "await_upload")

\* performMistralOCR up to its first await, lines 144-174.
performMistralOCR(m) ==
    IF settings.mistralApiKey = ""
    THEN [Goto(m, "ocr_threw") EXCEPT !.rec.ocrError = <<"Mistral API Key not configured">>]
    ELSE Goto(Issue(Note(Status(m, "Uploading to Mistral..."),
                         "cloud_upload Uploading to Mistral..."),
                    Call("files.upload")),
              "await_upload")

\* The catch of performMistralOCR, lines 226-229.
OcrFailed(m, message) ==
    [Goto(m, "ocr_threw") EXCEPT !.rec.ocrError = <<"Mistral OCR Failed: ", message>>]

\* UploadSettled without the test of lines 176-178.
UploadSettledUnchecked(m, resp) ==
    LET n == [m EXCEPT !.rec.uploadedFile = resp]
    IN  CASE resp = "error" -> OcrFailed(m, "upload rejected")
          [] OTHER -> Goto(Issue(n, Call("files.getSignedUrl")), "await_url")

\* Lines 176-183: the upload has settled; resp is what uploadedFile is, or
\* "error" when the upload rejected.
UploadSettled(m, resp) ==
    LET n == [m EXCEPT !.rec.uploadedFile = resp]
    IN  CASE resp = "error" -> OcrFailed(m, "upload rejected")
          [] resp \in {"null", "no id"} -> OcrFailed(n, "Failed to upload file to Mistral")
          [] OTHER -> Goto(Issue(n, Call("files.getSignedUrl")), "await_url")

\* Lines 185-196: the signed URL has settled.
SignedUrlSettled(m, resp) ==
    IF resp = "error" THEN OcrFailed(m, "getSignedUrl rejected")
    ELSE Goto(Issue(Note(Status(m, "Running OCR..."), "Processing OCR..."),
                    [Call("ocr.process") EXCEPT
                        !.includeImageBase64 = settings.extractImages]),
              "await_process")

\* Lines 198-224: the OCR response has settled; resp is None for an error.
OcrProcessSettled(m, resp) ==
    IF ~resp.some THEN OcrFailed(m, "ocr.process rejected")
    ELSE [Goto(m, "ocr_returned") EXCEPT
            !.rec.ocrResponse = resp,
            !.rec.ocrResult = ParseOcrResponse(resp.v, settings.extractImages)]

\* saveLoop without the test of line 255: every image is created.
RECURSIVE saveLoopCreatesOnly(_)
saveLoopCreatesOnly(m) ==
    LET images == m.rec.ocrResult.images
        i == m.rec.saveIdx
    IN  IF i > Len(images)
        THEN Goto(Note(m, "Saved N images"), "save_returned")
        ELSE IF ~IsBase64(images[i].data)
        THEN saveLoopCreatesOnly(
                [m EXCEPT !.rec.saveIdx = i + 1,
                          !.rec.writeLog = Append(@, [id |-> images[i].id, ok |-> FALSE])])
        ELSE [Goto(m, "await_write") EXCEPT !.rec.writeOp = "createBinary"]

\* saveOCRImages, the loop of lines 248-265 from image saveIdx on, up to the
\* next await; an image that is no base64 throws inside the try and is skipped.
RECURSIVE saveLoop(_)
saveLoop(m) ==
    LET images == m.rec.ocrResult.images
        i == m.rec.saveIdx
        imagePath == m.rec.targetFolder \o <<"/">> \o images[i].id
        existingFile == getAbstractFileByPath(m.vault, imagePath)
    IN  IF i > Len(images)
        THEN Goto(Note(m, "Saved N images"), "save_returned")
        ELSE IF ~IsBase64(images[i].data)
        THEN saveLoop([m EXCEPT !.rec.saveIdx = i + 1,
                                !.rec.writeLog = Append(@, [id |-> images[i].id, ok |-> FALSE])])
        ELSE [Goto(m, "await_write") EXCEPT
                !.rec.writeOp = IF existingFile.type = "file" THEN "modifyBinary"
                                ELSE "createBinary"]

\* saveOCRImages up to its first await, lines 233-248.
saveOCRImages(m, basePath) ==
    LET targetFolder == IF settings.imageSubfolder # ""
                        THEN basePath \o <<"/", settings.imageSubfolder>>
                        ELSE basePath
        folder == getAbstractFileByPath(m.vault, targetFolder)
        n == [m EXCEPT !.rec.basePath = basePath,
                       !.rec.targetFolder = targetFolder,
                       !.rec.saveIdx = 1]
    IN  IF Len(m.rec.ocrResult.images) = 0 THEN Goto(m, "save_returned")
        ELSE IF settings.imageSubfolder # "" /\ folder.type # "folder"
        THEN Goto(n, "await_mkdir")
        ELSE saveLoop(n)

\* Line 244: createFolder has settled.
CreateFolderSettled(m, ok) ==
    IF ok
    THEN saveLoop([m EXCEPT !.vault = (m.rec.targetFolder :> Folder) @@ @])
    ELSE [Goto(m, "save_threw") EXCEPT !.rec.saveError = <<"createFolder rejected">>]

\* WriteSettled without the try of lines 249-264: a write that fails ends
\* saveOCRImages.
WriteSettledAborts(m, ok) ==
    LET image == m.rec.ocrResult.images[m.rec.saveIdx]
        imagePath == m.rec.targetFolder \o <<"/">> \o image.id
        logged == [m EXCEPT !.rec.writeLog = Append(@, [id |-> image.id, ok |-> ok]),
                            !.rec.saveIdx = @ + 1,
                            !.rec.writeOp = "none"]
    IN  IF ok
        THEN saveLoop([logged EXCEPT
                !.vault = (imagePath :> File(image.data)) @@ @,
                !.rec.savedPaths = Append(@, [id |-> image.id, path |-> imagePath])])
        ELSE [Goto(logged, "save_threw") EXCEPT !.rec.saveError = <<"write rejected">>]

\* Lines 256-264: modifyBinary or createBinary has settled.
WriteSettled(m, ok) ==
    LET image == m.rec.ocrResult.images[m.rec.saveIdx]
        imagePath == m.rec.targetFolder \o <<"/">> \o image.id
        logged == [m EXCEPT !.rec.writeLog = Append(@, [id |-> image.id, ok |-> ok]),
                            !.rec.saveIdx = @ + 1,
                            !.rec.writeOp = "none"]
    IN  IF ok
        THEN saveLoop([logged EXCEPT
                !.vault = (imagePath :> File(image.data)) @@ @,
                !.rec.savedPaths = Append(@, [id |-> image.id, path |-> imagePath])])
        ELSE saveLoop(logged)

\* ------------------------------------------------- completions (the inputs)

Q == "\""

\* {"formatted_markdown": "<body>"<rest>}
JsonObject(body, rest) ==
    <<"{", Q, "formatted_markdown", Q, ":", " ", Q>> \o body \o <<Q>> \o rest \o <<"}">>

Confidence(lexeme) == <<",", " ", Q, "confidence_score", Q, ":", " ">> \o lexeme

\* The JSON string bodies: ok; "# T\n\\( a \\)" (escaped line feed and
\* backslashes); "\\[ x \\]"; one with U+00A0 and U+3000; the empty string.
BodyOk == <<"o", "k">>
BodyInline == <<"#", " ", "T", "\\", "n", "\\", "\\", "(", " ", "a", " ", "\\", "\\", ")">>
BodyBlock == <<"\\", "\\", "[", " ", "x", " ", "\\", "\\", "]">>
BodySpaces == <<"x", "NBSP", "y", "U3000", "z">>

\* Completions that parse and satisfy the schema.
ValidCompletions ==
    { JsonObject(BodyOk, <<>>),
      JsonObject(BodyInline, Confidence(<<"0", ".", "9">>)),
      JsonObject(BodyBlock, Confidence(<<"7">>)),
      JsonObject(BodySpaces, <<>>),
      JsonObject(<<>>, <<>>),
      <<" ", "LF">> \o JsonObject(BodyInline, <<>>) \o <<"LF">> }

\* Completions that parse and do not satisfy the schema.
MismatchCompletions ==
    { <<"{", Q, "confidence_score", Q, ":", "0", ".", "9", "}">>,
      <<"{", Q, "formatted_markdown", Q, ":", "5", "}">>,
      JsonObject(BodyOk, Confidence(<<Q, "h", "i", Q>>)),
      JsonObject(BodyOk, Confidence(<<"null">>)),
      <<"[">> \o JsonObject(BodyOk, <<>>) \o <<"]">>,
      <<Q, "\\", "\\", "(", "a", "\\", "\\", ")", Q>>,
      <<"null">> }

\* Completions that do not parse: prose with delimiters and odd spaces, LaTeX
\* written into JSON without escaping the backslashes, a truncated object, a
\* trailing comma, a non-breaking space before the object, nothing at all.
UnparsableCompletions ==
    { <<"S", "e", "e", " ", "\\", "(", " ", "a", " ", "\\", ")", "NBSP", "\\", "[", "x", "\\", "]">>,
      <<"p", "l", "a", "i", "n">>,
      JsonObject(<<"\\", "[", " ", "x", " ", "\\", "]">>, <<>>),
      <<"{", Q, "formatted_markdown", Q, ":", Q, "o", "k">>,
      <<"{", Q, "formatted_markdown", Q, ":", Q, "o", "k", Q, ",", "}">>,
      <<"{", "NBSP", "}">>,
      <<>> }

\* The wrappings formatText undoes before it parses.
Wrapped(c) ==
    { <<"<think>", "s", "LF", "</think>">> \o c,
      <<"<THINK>", "{", "</Think>", "LF">> \o c \o <<"<think>", "</think>">>,
      <<"FENCE", "json", "LF">> \o c \o <<"LF", "FENCE">>,
      <<"FENCE">> \o c,
      c \o <<"FENCE">> }

\* What the formatting model may answer to a selection the user formats.
Completions ==
    ValidCompletions \cup MismatchCompletions \cup UnparsableCompletions
    \cup Wrapped(JsonObject(BodyInline, Confidence(<<"0", ".", "9">>)))
    \cup Wrapped(<<"S", "e", "e", " ", "\\", "(", " ", "a", " ", "\\", ")">>)

\* What it may answer within a pipeline run.
PipelineCompletions ==
    { JsonObject(BodyInline, Confidence(<<"0", ".", "9">>)),
      JsonObject(<<>>, <<>>),
      <<"{", Q, "formatted_markdown", Q, ":", "5", "}">>,
      <<"S", "e", "e", " ", "\\", "(", " ", "a", " ", "\\", ")", "NBSP", "\\", "[", "x", "\\", "]">> }

\* One answer that satisfies the schema and one that does not parse.
BriefCompletions ==
    { JsonObject(BodyInline, Confidence(<<"0", ".", "9">>)), <<"p", "l", "a", "i", "n">> }

\* The settlements of the fetcher: a rejection, a response without
\* choices[0].message.content, a response with a text content.
FetchOutcomes(kind) ==
    (IF Smooth THEN {}
     ELSE { [how |-> "rejected", content |-> <<>>], [how |-> "malformed", content |-> <<>>] })
    \cup { [how |-> "content", content |-> c] :
             c \in IF Smooth THEN { JsonObject(BodyInline, Confidence(<<"0", ".", "9">>)) }
                   ELSE IF scope = "format" THEN BriefCompletions
                   ELSE IF kind = "formatText" THEN Completions
                   ELSE PipelineCompletions }

\* The settlements of presetManager.getPresetContent (presetManager.ts 81-87):
\* a rejection of the adapter (None), null, or the text of the file.
PresetOutcomes ==
    { [how |-> "rejected", content |-> <<>>],
      [how |-> "null", content |-> <<>>],
      [how |-> "content", content |-> <<>>],
      [how |-> "content", content |-> <<"PRESET_BODY">>] }

\* The same with a preset file that is not an empty one.
PipelinePresetOutcomes == { p \in PresetOutcomes : p.how = "content" => p.content # <<>> }

\* The settlements of getPresetContent a run may meet.
PresetOutcomesIn ==
    IF scope = "format" THEN PresetOutcomes
    ELSE IF Smooth THEN { p \in PresetOutcomes : p.content # <<>> }
    ELSE PipelinePresetOutcomes

\* The names of the presets of initializeDefaultPresets (presetManager.ts
\* 24, 48).
PresetNames == { "Academic Blue", "Clean Markdown" }

\* modelOverride: undefined (the command, line 98), or the modal's
\* currentModel (lines 732, 785), which the user may have emptied.
ModelOverrides == { None, Some(<<>>), Some(<<"openai/gpt-4o">>) }

\* currentModel of the modal in a pipeline run.
ModalModels == { Some(<<"openai/gpt-4o">>) }

\* The value undefined where the code expects a string.
Undefined == <<"UNDEFINED">>

\* What getProvider() returns (lines 117-122): null, or the provider plugin,
\* given by what its getModel('ai-ocr-formatter') answers: a model, the
\* empty string, or undefined.
Providers == { None, Some(<<"anthropic/claude-3.5-sonnet">>), Some(<<>>), Some(Undefined) }

\* What it returns in a pipeline run.
PipelineProviders == { None }

\* What it returns when formatText is called on a selection.
ProvidersIn ==
    IF scope = "format" THEN Providers ELSE { p \in Providers : p.v # Undefined }

\* The files the user hands to the modal: File.type, and the part of the
\* reader's data URL after the comma (line 824).
Files ==
    { [name |-> "scan.png", type |-> <<"image/png">>, data |-> <<"c2Nhbg==">>],
      [name |-> "paper.pdf", type |-> <<"application/pdf">>, data |-> <<"cGFwZXI=">>],
      [name |-> "notes.xyz", type |-> <<>>, data |-> <<"bm90ZXM=">>] }

\* The fields of an OCRModal after construction, lines 516-517; reading is
\* the bag of the files whose FileReader (lines 820-834) has not completed.
NoFile == [fileData |-> None, fileMimeType |-> None, reading |-> EmptyBag]

\* The modal after handleFile(file) and the completion of its reader.
Loaded(file) ==
    [fileData |-> Some(file.data), fileMimeType |-> Some(file.type), reading |-> EmptyBag]

\* The file of a pipeline run.
ScanFile == CHOOSE f \in Files : f.name = "scan.png"

\* The text the user formats, and the instruction typed into the modal.
\* The second has four characters left after trim.
Selections ==
    { <<"s", "e", "l", "e", "c", "t", "e", "d">>, <<" ", "a", "b", "c", "d", "LF">> }

\* The selection the Format button finds (line 727).
ModalSelections ==
    IF scope = "format" THEN Selections
    ELSE { t \in Selections : Len(Trim(t)) >= 5 }

\* currentModel of the modal when the Format button is clicked.
ModalModelsIn == { o \in ModelOverrides : o.some }

CustomInstructions == { <<>>, <<" ">>, <<"N", "o", " ", "t", "a", "b", "l", "e", "s">> }

\* ---------------------------------------------------------------- formatText

\* Lines 58-59
ACADEMIC_BLUE_PROMPT == <<"ACADEMIC_BLUE_PROMPT">>

\* Lines 300-307
zodInstruction == <<"ZOD_INSTRUCTION">>

\* The notice of line 345, the one warning of formatText.
InvalidStructureNotice == "Formatting structure invalid. Returning raw output."

\* Lines 275-284 with the provider put first: its model wins over the
\* override.
SelectedModelProviderFirst(modelOverride, provider) ==
    IF provider.some
    THEN IF provider.v \notin {<<>>, Undefined} THEN provider.v ELSE modelOverride.v
    ELSE IF modelOverride.some /\ modelOverride.v # <<>> THEN modelOverride.v
         ELSE settings.openRouterModel

\* Lines 275-284: the model of the request.  provider is what getProvider()
\* returned, None or the model its getModel('ai-ocr-formatter') gives.
SelectedModel(modelOverride, provider) ==
    IF provider.some
    THEN IF modelOverride.some /\ modelOverride.v # <<>> THEN modelOverride.v
         ELSE provider.v
    ELSE IF modelOverride.some /\ modelOverride.v # <<>> THEN modelOverride.v
         ELSE settings.openRouterModel

\* Line 290: the name of the preset a call of formatText made now reads.
PresetInEffect == IF currentPreset # "" THEN currentPreset ELSE settings.defaultPreset

\* formatText up to its first await, lines 272-291.  model.split of line
\* 287 throws when the model is undefined, after the status has been set.
formatText(m, rawText, modelOverride, customInstruction, editor) ==
    LET model == SelectedModel(modelOverride, m.provider)
        called == [Status(m, "Formatting...")
                     EXCEPT !.rec.rawText = rawText,
                            !.rec.modelOverride = modelOverride,
                            !.rec.provider = m.provider,
                            !.rec.model = model,
                            !.rec.customInstruction = customInstruction,
                            !.rec.editor = editor]
    IN  IF model = Undefined
        THEN [Goto(called, "fmt_threw") EXCEPT !.rec.fmtError = <<"model is undefined">>]
        ELSE [Goto(Note(called, "Formatting with model..."), "await_preset")
                EXCEPT !.rec.presetName = PresetInEffect]

\* fullSystemPrompt with the custom instruction appended whenever it is not
\* the empty string.
fullSystemPromptUntrimmed(preset, customInstruction) ==
    LET systemPrompt == IF preset.how = "null" \/ preset.content = <<>>
                        THEN ACADEMIC_BLUE_PROMPT
                        ELSE preset.content
        withCustom == IF Len(customInstruction) > 0
                      THEN systemPrompt
                           \o <<"LF", "LF", "[USER CUSTOM INSTRUCTION]", "LF">>
                           \o customInstruction
                      ELSE systemPrompt
    IN  withCustom \o <<"LF", "LF">> \o zodInstruction

\* Lines 291-309: the system message.
fullSystemPrompt(preset, customInstruction) ==
    LET systemPrompt == IF preset.how = "null" \/ preset.content = <<>>
                        THEN ACADEMIC_BLUE_PROMPT
                        ELSE preset.content
        withCustom == IF Len(Trim(customInstruction)) > 0
                      THEN systemPrompt
                           \o <<"LF", "LF", "[USER CUSTOM INSTRUCTION]", "LF">>
                           \o customInstruction
                      ELSE systemPrompt
    IN  withCustom \o <<"LF", "LF">> \o zodInstruction

\* Line 316: the user message.
userMessage(rawText) ==
    <<"Format the following OCR text. Language: ", settings.language, ".",
      "LF", "LF", "---", "LF">> \o rawText \o <<"LF", "---">>

\* The catch of formatText, lines 351-355.
formatTextCatch(m) ==
    [Status(Note(Goto(m, "fmt_returned"), "Formatting failed: ..."), "")
        EXCEPT !.rec.fmtResult = RetNull]

\* localFetch(options), lines 125-140: without a key it throws before
\* anything is sent, and the catch of formatText takes the error.
localFetch(m, options) ==
    IF settings.openRouterApiKey = "" THEN formatTextCatch(m)
    ELSE Goto(Issue(m, options), "await_fetch")

\* Lines 291-318: getPresetContent has settled; the fetcher is called, the
\* provider's fetchWithRetry or localFetch (lines 278-284).
PresetSettled(m, preset) ==
    LET options == [Call("fetcher") EXCEPT
                        !.model = m.rec.model,
                        !.system = fullSystemPrompt(preset, m.rec.customInstruction),
                        !.user = userMessage(m.rec.rawText)]
        n == [m EXCEPT !.rec.preset = preset]
    IN  IF preset.how = "rejected"
        THEN [Goto(m, "fmt_threw") EXCEPT !.rec.preset = preset,
                                          !.rec.fmtError = <<"getPresetContent rejected">>]
        ELSE IF m.rec.provider.some THEN Goto(Issue(n, options), "await_fetch")
        ELSE localFetch(n, options)

\* Normalized with the inner catch handing the error on to the outer catch
\* of lines 351-355.
NormalizedFallbackFails(m, content) ==
    LET Outcome(parsedJson) ==
            IF parsedJson.ok /\ SchemaAccepts(parsedJson.val)
            THEN [Status(IF m.rec.editor THEN Note(m, "formatted!") ELSE m, "")
                    EXCEPT !.rec.fmtResult =
                        RetString(cleanLatexDelimiters(FormattedMarkdown(parsedJson.val)))]
            ELSE [Status(Note(m, "Formatting failed: ..."), "")
                    EXCEPT !.rec.fmtResult = RetNull]
    IN  Outcome(JSONParse(content))

\* Normalized with the fallback text passed through cleanLatexDelimiters.
NormalizedFallbackCleaned(m, content) ==
    LET Outcome(parsedJson) ==
            IF parsedJson.ok /\ SchemaAccepts(parsedJson.val)
            THEN [Status(IF m.rec.editor THEN Note(m, "formatted!") ELSE m, "")
                    EXCEPT !.rec.fmtResult =
                        RetString(cleanLatexDelimiters(FormattedMarkdown(parsedJson.val)))]
            ELSE [Status(Note(m, InvalidStructureNotice), "")
                    EXCEPT !.rec.fmtResult = RetString(cleanLatexDelimiters(content))]
    IN  Outcome(JSONParse(content))

\* Normalized without the call of cleanLatexDelimiters of line 332.
NormalizedValidUncleaned(m, content) ==
    LET Outcome(parsedJson) ==
            IF parsedJson.ok /\ SchemaAccepts(parsedJson.val)
            THEN [Status(IF m.rec.editor THEN Note(m, "formatted!") ELSE m, "")
                    EXCEPT !.rec.fmtResult = RetString(FormattedMarkdown(parsedJson.val))]
            ELSE [Status(Note(m, InvalidStructureNotice), "")
                    EXCEPT !.rec.fmtResult = RetString(content)]
    IN  Outcome(JSONParse(content))

\* Lines 327-349: the parse of the cleaned content and its two outcomes.
Normalized(m, content) ==
    LET Outcome(parsedJson) ==
            IF parsedJson.ok /\ SchemaAccepts(parsedJson.val)
            THEN [Status(IF m.rec.editor THEN Note(m, "formatted!") ELSE m, "")
                    EXCEPT !.rec.fmtResult =
                        RetString(cleanLatexDelimiters(FormattedMarkdown(parsedJson.val)))]
            ELSE [Status(Note(m, InvalidStructureNotice), "")
                    EXCEPT !.rec.fmtResult = RetString(content)]
    IN  Outcome(JSONParse(content))

\* FetchSettled with one more try of the fetcher after a rejection.
FetchSettledRetries(m, outcome) ==
    LET n == [Goto(m, "fmt_returned") EXCEPT
                !.rec.completion = IF outcome.how = "content"
                                   THEN Some(outcome.content) ELSE None]
        fetches == { k \in 1..Len(m.rec.calls) : m.rec.calls[k].op = "fetcher" }
    IN  IF outcome.how = "content"
        THEN Normalized(n, CleanContent(outcome.content))
        ELSE IF Cardinality(fetches) < 2
        THEN Issue(m, m.rec.calls[Len(m.rec.calls)])
        ELSE [Status(Note(n, "Formatting failed: ..."), "")
                EXCEPT !.rec.fmtResult = RetNull]

\* Lines 319-355: the fetcher has settled.
FetchSettled(m, outcome) ==
    LET n == [Goto(m, "fmt_returned") EXCEPT
                !.rec.completion = IF outcome.how = "content"
                                   THEN Some(outcome.content) ELSE None]
    IN  IF outcome.how = "content"
        THEN Normalized(n, CleanContent(outcome.content))
        ELSE formatTextCatch(m)

\* -------------------------------------------------- processImage, the modal

\* The catch of processImage, lines 375-379, and the caller's close().
processImageCatch(m, message) ==
    [Goto(Status(Note(m, "Error: ..."), ""), "done")
        EXCEPT !.rec.result = RetNull, !.rec.error = message]

\* The catch of the OCR button, lines 766-769.
ocrButtonCatch(m) == Goto(Note(m, "OCR Failed: ..."), "done")

\* Date.now() at line 811, in decimal digits: two successive milliseconds.
Instants ==
    { <<"1", "7", "9", "3", "2", "6", "8", "0", "0", "0", "0", "0", "0">>,
      <<"1", "7", "9", "3", "2", "6", "8", "0", "0", "0", "0", "0", "1">> }

\* The note the run creates when no Markdown view is active, line 811:
\* OCR-<Date.now()>.md in the root of the vault.
NewFilePath(now) == <<"OCR-">> \o now \o <<".md">>

\* outputResult(content), lines 806-814, up to its first await, then the
\* caller's close(): the callers do not await it.  With an active Markdown
\* view the content is inserted at the cursor; without one vault.create is
\* called and the run's handler ends with that call pending.
outputResult(m, content) ==
    IF m.view
    THEN [Goto(m, "done") EXCEPT !.rec.inserted = Some(content)]
    ELSE [Goto(m, "done") EXCEPT !.rec.outputPc = "await_create",
                                 !.rec.outputPath = NewFilePath(m.now),
                                 !.rec.outputContent = content]

\* Line 811: vault.create has settled.  When it rejects nothing catches the
\* rejection and the content is lost.
VaultCreateSettled(m, ok) ==
    IF ok
    THEN [m EXCEPT !.vault = (m.rec.outputPath :> File(m.rec.outputContent)) @@ @,
                   !.rec.outputPc = "await_open"]
    ELSE [m EXCEPT !.rec.outputPc = "create_rejected"]

\* Line 812: getLeaf(true).openFile(newFile) has settled.
OpenFileSettled(m, ok) ==
    [m EXCEPT !.rec.outputPc = IF ok THEN "opened" ELSE "open_rejected"]

\* editor.replaceSelection(formatted): line 100 on the editor the command
\* was given; line 734 on this.getEditor() as it is after formatText has
\* settled, and on nothing when no Markdown view is active then.
replaceSelection(m, formatted) ==
    IF m.rec.caller = "command" \/ m.view
    THEN [Goto(m, "done") EXCEPT !.rec.inserted = Some(formatted)]
    ELSE Goto(m, "done")

\* Lines 372-373
callFormatText(m) ==
    formatText(Note(m, "OCR complete! Formatting..."),
               m.rec.ocrResult.markdown, m.rec.modelOverride, m.rec.customInstruction, FALSE)

\* AfterOCR without the test of line 362.
AfterOCRUnchecked(m, basePath) ==
    LET ocrResult == m.rec.ocrResult
        dropped == [m EXCEPT !.rec.ocrResponse = None]
    IN  IF m.rec.kind = "processImage"
        THEN CASE m.rec.pc = "ocr_threw" -> processImageCatch(dropped, m.rec.ocrError)
               [] m.rec.pc = "ocr_returned" /\ Len(ocrResult.images) > 0 ->
                    saveOCRImages(dropped, basePath)
               [] OTHER -> callFormatText(dropped)
        ELSE CASE m.rec.pc = "ocr_threw" -> ocrButtonCatch(dropped)
               [] m.rec.pc = "ocr_returned" /\ Len(ocrResult.images) > 0 ->
                    saveOCRImages(dropped, basePath)
               [] OTHER -> outputResult(dropped, ocrResult.markdown)

\* AfterOCR with formatText called before the images are saved.
AfterOCRFormatsFirst(m, basePath) ==
    LET ocrResult == m.rec.ocrResult
        dropped == [m EXCEPT !.rec.ocrResponse = None]
    IN  IF m.rec.kind = "processImage"
        THEN CASE m.rec.pc = "ocr_threw" -> processImageCatch(dropped, m.rec.ocrError)
               [] m.rec.pc = "ocr_returned" /\ ocrResult.markdown = <<>> ->
                    processImageCatch(dropped, <<"Empty OCR Result">>)
               [] OTHER -> callFormatText(dropped)
        ELSE CASE m.rec.pc = "ocr_threw" -> ocrButtonCatch(dropped)
               [] m.rec.pc = "ocr_returned" /\ Len(ocrResult.images) > 0 ->
                    saveOCRImages(dropped, basePath)
               [] OTHER -> outputResult(dropped, ocrResult.markdown)

\* The await of performMistralOCR resumes: processImage lines 361-373, the
\* OCR button lines 757-769.  basePath is activeFile?.parent?.path || "".
AfterOCR(m, basePath) ==
    LET ocrResult == m.rec.ocrResult
        dropped == [m EXCEPT !.rec.ocrResponse = None]
    IN  IF m.rec.kind = "processImage"
        THEN CASE m.rec.pc = "ocr_threw" -> processImageCatch(dropped, m.rec.ocrError)
               [] m.rec.pc = "ocr_returned" /\ ocrResult.markdown = <<>> ->
                    processImageCatch(dropped, <<"Empty OCR Result">>)
               [] m.rec.pc = "ocr_returned" /\ ocrResult.markdown # <<>>
                    /\ Len(ocrResult.images) > 0 ->
                    saveOCRImages(dropped, basePath)
               [] OTHER -> callFormatText(dropped)
        ELSE CASE m.rec.pc = "ocr_threw" -> ocrButtonCatch(dropped)
               [] m.rec.pc = "ocr_returned" /\ Len(ocrResult.images) > 0 ->
                    saveOCRImages(dropped, basePath)
               [] OTHER -> outputResult(dropped, ocrResult.markdown)

\* The await of saveOCRImages resumes: lines 369-373, lines 762-765.
AfterSave(m) ==
    IF m.rec.kind = "processImage"
    THEN IF m.rec.pc = "save_threw" THEN processImageCatch(m, m.rec.saveError)
         ELSE callFormatText(m)
    ELSE IF m.rec.pc = "save_threw" THEN ocrButtonCatch(m)
         ELSE outputResult(m, m.rec.ocrResult.markdown)

\* The await of formatText resumes: processImage lines 373-379 and the
\* OCR & Format button lines 785-791; the command, lines 98-101; the Format
\* button, lines 732-738.
AfterFormat(m) ==
    LET res == m.rec.fmtResult
        returned == [m EXCEPT !.rec.result = res]
    IN  IF m.rec.kind = "processImage"
        THEN IF m.rec.pc = "fmt_threw" THEN processImageCatch(m, m.rec.fmtError)
             ELSE IF Truthy(res) THEN outputResult(returned, res.val)
             ELSE Goto(returned, "done")
        ELSE IF m.rec.pc = "fmt_threw" THEN [Goto(m, "done") EXCEPT !.rec.result = RetThrow]
             ELSE IF Truthy(res) THEN replaceSelection(returned, res.val)
             ELSE Goto(returned, "done")

\* ------------------------------------------------------------------ actions

\* The machine of a step: the run's record, the status bar, the vault, what
\* getProvider() returns at the step (line 273), whether
\* getActiveViewOfType(MarkdownView) finds a view at it (lines 802, 807)
\* and what Date.now() returns at it (line 811).
Machine(r) ==
    [ rec |-> run[r], status |-> statusBar, vault |-> vault, provider |-> None,
      view |-> TRUE, now |-> <<>> ]

\* The machine at a step in which getProvider() returns provider.
MachineWith(r, provider) == [Machine(r) EXCEPT !.provider = provider]

\* The machine at a step in which a Markdown view is active or not, at the
\* instant now.
MachineAt(r, provider, view, now) ==
    [Machine(r) EXCEPT !.provider = provider, !.view = view, !.now = now]

Becomes(r, m) ==
    /\ run' = [run EXCEPT ![r] = m.rec]
    /\ statusBar' = m.status
    /\ vault' = m.vault
    /\ UNCHANGED <<settings, evaluation, currentPreset, modal, scope>>

\* The test of lines 749 and 778: a file has been read and has a type.
FileSelected ==
    /\ modal.fileData.some /\ modal.fileData.v # <<>>
    /\ modal.fileMimeType.some /\ modal.fileMimeType.v # <<>>

\* The machine of a run started from the modal: the arguments of lines 757
\* and 785, and the preset selected in the modal at that moment.
Clicked(r, kind) ==
    [Machine(r) EXCEPT !.rec.kind = kind,
                       !.rec.base64Data = modal.fileData.v,
                       !.rec.mimeType = modal.fileMimeType.v,
                       !.rec.chosenPreset = PresetInEffect]

\* The OCR & Format button, lines 777-785: processImage, which calls
\* performMistralOCR.
ClickOcrAndFormat(r) ==
    /\ run[r].pc = "idle"
    /\ FileSelected
    /\ \E currentModel \in ModalModels :
         Becomes(r, performMistralOCR([Clicked(r, "processImage") EXCEPT
                                         !.rec.modelOverride = currentModel]))

\* The OCR button, lines 748-757.
ClickOcrOnly(r) ==
    /\ run[r].pc = "idle"
    /\ FileSelected
    /\ Becomes(r, performMistralOCR(Clicked(r, "ocrOnly")))

\* The command Format Selection, lines 92-101: a selection that is empty or
\* shorter than 5 characters after trim is refused with a notice; formatText
\* is called with the selection and the editor of the command alone.
FormatSelection(r) ==
    /\ run[r].pc = "idle"
    /\ \E selection \in Selections, provider \in ProvidersIn :
         IF Len(Trim(selection)) < 5
         THEN Becomes(r, Goto(Note(Machine(r), "Please select some text to format."),
                              "done"))
         ELSE Becomes(r, formatText([MachineWith(r, provider) EXCEPT
                                       !.rec.kind = "formatText",
                                       !.rec.caller = "command",
                                       !.rec.chosenPreset = PresetInEffect],
                                    selection, None, <<>>, TRUE))

\* The Format button of the modal, lines 726-732: with no selection the
\* handler returns at line 728 and nothing changes; otherwise formatText is
\* called with the modal's model and instruction and with the editor of the
\* view the selection was read from.
ClickFormat(r) ==
    /\ run[r].pc = "idle"
    /\ \E selection \in ModalSelections, currentModel \in ModalModelsIn,
          customInstruction \in CustomInstructions, provider \in ProvidersIn :
         /\ selection # <<>>
         /\ Becomes(r, formatText([MachineWith(r, provider) EXCEPT
                                      !.rec.kind = "formatText",
                                      !.rec.caller = "button",
                                      !.rec.chosenPreset = PresetInEffect],
                                   selection, currentModel, customInstruction, TRUE))

UploadSettles(r) ==
    /\ run[r].pc = "await_upload"
    /\ \E resp \in IF Smooth THEN {"ok"} ELSE {"error", "null", "no id", "ok"} :
         Becomes(r, UploadSettled(Machine(r), resp))

SignedUrlSettles(r) ==
    /\ run[r].pc = "await_url"
    /\ \E resp \in IF Smooth THEN {"ok"} ELSE {"error", "ok"} :
         Becomes(r, SignedUrlSettled(Machine(r), resp))

\* The response answers the request the run sent (its includeImageBase64).
OcrProcessSettles(r) ==
    /\ run[r].pc = "await_process"
    /\ \E resp \in (IF Smooth THEN {} ELSE {None}) \cup
            { Some(x) : x \in OcrResponsesIn(
                run[r].calls[Len(run[r].calls)].includeImageBase64) } :
         Becomes(r, OcrProcessSettled(Machine(r), resp))

ResumeAfterOCR(r) ==
    /\ run[r].pc \in {"ocr_returned", "ocr_threw"}
    /\ \E basePath \in IF Smooth THEN {<<>>} ELSE BasePaths,
          provider \in PipelineProviders, view \in ActiveViews, now \in Instants :
         Becomes(r, AfterOCR(MachineAt(r, provider, view, now), basePath))

\* createFolder rejects when something is at the path, and may reject
\* anyway, except where every request is answered with success.
CreateFolderSettles(r) ==
    /\ run[r].pc = "await_mkdir"
    /\ \E ok \in BOOLEAN :
         /\ ok => run[r].targetFolder \notin DOMAIN vault
         /\ (Smooth /\ ~ok) => run[r].targetFolder \in DOMAIN vault
         /\ Becomes(r, CreateFolderSettled(Machine(r), ok))

\* createBinary rejects when something is at the path; both may reject
\* anyway, except where every request is answered with success.
WriteSettles(r) ==
    /\ run[r].pc = "await_write"
    /\ LET imagePath == run[r].targetFolder
                            \o <<"/">> \o run[r].ocrResult.images[run[r].saveIdx].id
           exists == run[r].writeOp = "createBinary" /\ imagePath \in DOMAIN vault
       IN  \E ok \in BOOLEAN :
              /\ ok => ~exists
              /\ (Smooth /\ ~ok) => exists
              /\ Becomes(r, WriteSettled(Machine(r), ok))

ResumeAfterSave(r) ==
    /\ run[r].pc \in {"save_returned", "save_threw"}
    /\ \E provider \in PipelineProviders, view \in ActiveViews, now \in Instants :
         Becomes(r, AfterSave(MachineAt(r, provider, view, now)))

PresetSettles(r) ==
    /\ run[r].pc = "await_preset"
    /\ \E preset \in PresetOutcomesIn :
         Becomes(r, PresetSettled(Machine(r), preset))

FetchSettles(r) ==
    /\ run[r].pc = "await_fetch"
    /\ \E outcome \in FetchOutcomes(run[r].kind) :
         Becomes(r, FetchSettled(Machine(r), outcome))

ResumeAfterFormat(r) ==
    /\ run[r].pc \in {"fmt_returned", "fmt_threw"}
    /\ \E view \in ActiveViews, now \in Instants :
         Becomes(r, AfterFormat(MachineAt(r, None, view, now)))

\* vault.create rejects when a file is at the path, and may reject anyway.
VaultCreateSettles(r) ==
    /\ run[r].outputPc = "await_create"
    /\ \E ok \in BOOLEAN :
         /\ ok => run[r].outputPath \notin DOMAIN vault
         /\ Becomes(r, VaultCreateSettled(Machine(r), ok))

OpenFileSettles(r) ==
    /\ run[r].outputPc = "await_open"
    /\ \E ok \in BOOLEAN : Becomes(r, OpenFileSettled(Machine(r), ok))

\* ------------------------------------------------------------ specification

\* No function is being applied on its own.
NoEvaluation == [fn |-> "none", arg |-> <<>>, ret |-> <<>>]

\* The settings of a pipeline run: the defaults of lines 34-43 with an
\* OpenRouter key entered, a Mistral key entered or not, and the image
\* settings as the settings tab allows them.
SettingsChoices ==
    [ mistralApiKey : {"", "mistral-key"},
      language : {"German"},
      saveLocation : {"cursor"},
      defaultPreset : {"Academic Blue"},
      openRouterApiKey : {"openrouter-key"},
      openRouterModel : {<<"google/gemini-2.0-flash-exp:free">>},
      extractImages : BOOLEAN,
      imageSubfolder : {"", "assets"} ]

Init ==
    /\ settings \in SettingsChoices
    /\ vault \in InitialVaults
    /\ statusBar = setStatus("")
    /\ run = [r \in Runs |-> NewRun]
    /\ evaluation = NoEvaluation
    /\ currentPreset = ""
    /\ modal = Loaded(ScanFile)
    /\ scope = "pipeline"

Next ==
    \E r \in Runs :
        \/ ClickOcrAndFormat(r)
        \/ ClickOcrOnly(r)
        \/ FormatSelection(r)
        \/ ClickFormat(r)
        \/ UploadSettles(r)
        \/ SignedUrlSettles(r)
        \/ OcrProcessSettles(r)
        \/ ResumeAfterOCR(r)
        \/ CreateFolderSettles(r)
        \/ WriteSettles(r)
        \/ ResumeAfterSave(r)
        \/ PresetSettles(r)
        \/ FetchSettles(r)
        \/ ResumeAfterFormat(r)
        \/ VaultCreateSettles(r)
        \/ OpenFileSettles(r)

Spec == Init /\ [][Next]_vars

\* ------------------------------------------ cleanLatexDelimiters on its own

\* The largest number of pieces of a text given to cleanLatexDelimiters.
MaxPieces == 5

\* The pieces the texts are made of: the four delimiters, a line feed, a
\* letter, U+00A0 and U+200B (line 386 makes a space of U+00A0 before
\* anything else looks at the text).
CanonPieces ==
    { BlockOpen, BlockClose, InlineOpen, InlineClose,
      <<"LF">>, <<"a">>, <<"NBSP">>, <<"U200B">> }

\* The texts of at most n pieces.
RECURSIVE TextsOf(_, _)
TextsOf(pieces, n) ==
    IF n = 0 THEN { <<>> }
    ELSE { <<>> } \cup { p \o t : p \in pieces, t \in TextsOf(pieces, n - 1) }

\* DEFAULT_SETTINGS, lines 34-43.
DefaultSettings ==
    [ mistralApiKey |-> "", language |-> "German", saveLocation |-> "cursor",
      defaultPreset |-> "Academic Blue", openRouterApiKey |-> "",
      openRouterModel |-> <<"google/gemini-2.0-flash-exp:free">>,
      extractImages |-> TRUE, imageSubfolder |-> "assets" ]

\* The settings after the user has entered the two keys in the settings tab
\* (lines 440-448 and 464-472).
ConfiguredSettings ==
    [DefaultSettings EXCEPT !.mistralApiKey = "mistral-key",
                            !.openRouterApiKey = "openrouter-key"]

\* A vault without files.
EmptyVault == [path \in {} |-> Nothing]

\* The plugin at rest, about to apply a function to one of the texts.
InitEvaluation(texts) ==
    /\ settings = ConfiguredSettings
    /\ vault = EmptyVault
    /\ statusBar = setStatus("")
    /\ run = [r \in Runs |-> NewRun]
    /\ evaluation \in { [fn |-> "none", arg |-> t, ret |-> <<>>] : t \in texts }
    /\ currentPreset = ""
    /\ modal = NoFile
    /\ scope = "function"

InitCanon == InitEvaluation(TextsOf(CanonPieces, MaxPieces))

\* cleanLatexDelimiters(text), lines 382-400.
CallCleanLatexDelimiters ==
    /\ evaluation.fn = "none"
    /\ evaluation' = [fn |-> "cleanLatexDelimiters", arg |-> evaluation.arg,
                      ret |-> cleanLatexDelimiters(evaluation.arg)]
    /\ UNCHANGED <<settings, vault, statusBar, run, currentPreset, modal, scope>>

NextCanon == CallCleanLatexDelimiters

SpecCanon == InitCanon /\ [][NextCanon]_vars

\* ------------------------- formatText's handling of a completion on its own

\* The largest number of pieces of a completion.
MaxParts == 4

\* A completion that satisfies the schema.
ValidObject == JsonObject(BodyInline, Confidence(<<"0", ".", "9">>))

\* The pieces the completions are made of: think markers in two letter
\* cases, a bare fence, a fence tagged json, a line feed, a letter, and the
\* valid object.
CompletionPieces ==
    { <<"<think>">>, <<"<THINK>">>, <<"</think>">>, <<"</Think>">>,
      Fence, Fence \o <<"json">>, <<"LF">>, <<"x">>, ValidObject }

\* JSON texts by what they hold: the value of formatted_markdown, the value
\* of confidence_score, and the shape around the two members.  The escaped
\* string is "\u0041\r\b\f\u200Bx"; the bad escape and the bad exponent are
\* no JSON.
FormattedMarkdownLexemes ==
    [ absent |-> <<>>, string |-> <<Q, "o", "k", Q>>, empty |-> <<Q, Q>>,
      number |-> <<"5">>, null |-> <<"null">>, true |-> <<"true">>,
      object |-> <<"{", "}">>, array |-> <<"[", Q, "o", "k", Q, "]">>,
      escaped |-> <<Q, "\\", "u", "0", "0", "4", "1", "\\", "r", "\\", "b",
                    "\\", "f", "\\", "u", "2", "0", "0", "B", "x", Q>>,
      badescape |-> <<Q, "\\", "u", "0", "0", "4", Q>> ]

ConfidenceScoreLexemes ==
    [ absent |-> <<>>, fraction |-> <<"0", ".", "9">>, above |-> <<"7">>,
      negative |-> <<"-", "1">>, zero |-> <<"0">>, string |-> <<Q, "0", ".", "9", Q>>,
      null |-> <<"null">>, false |-> <<"false">>,
      exponent |-> <<"-", "1", ".", "5", "E", "+", "2">>, badexponent |-> <<"1", "e">> ]

JsonShapes == {"object", "reversed", "extra member", "array", "unclosed"}

JsonCases ==
    [ shape : JsonShapes, fm : DOMAIN FormattedMarkdownLexemes,
      cs : DOMAIN ConfidenceScoreLexemes ]

\* The case of a completion that is given as a text of pieces.
NoCase == [shape |-> "text", fm |-> "absent", cs |-> "absent"]

\* "key": lexeme, or nothing when the member is absent.
JsonMember(key, lexeme) ==
    IF lexeme = <<>> THEN <<>> ELSE << <<Q, key, Q, ":", " ">> \o lexeme >>

RECURSIVE JoinMembers(_)
JoinMembers(members) ==
    IF members = <<>> THEN <<>>
    ELSE IF Len(members) = 1 THEN members[1]
    ELSE members[1] \o <<",", " ">> \o JoinMembers(Tail(members))

\* The text of a case.
Render(c) ==
    LET fm == JsonMember("formatted_markdown", FormattedMarkdownLexemes[c.fm])
        cs == JsonMember("confidence_score", ConfidenceScoreLexemes[c.cs])
        extra == JsonMember("notes", <<"[", "1", ",", "null", "]">>)
        object == <<"{">> \o JoinMembers(fm \o cs) \o <<"}">>
    IN  CASE c.shape = "object" -> object
          [] c.shape = "reversed" -> <<"{">> \o JoinMembers(cs \o fm) \o <<"}">>
          [] c.shape = "extra member" -> <<"{">> \o JoinMembers(extra \o fm \o cs) \o <<"}">>
          [] c.shape = "array" -> <<"[">> \o object \o <<"]">>
          [] OTHER -> <<"{">> \o JoinMembers(fm \o cs)

InitCompletion ==
    /\ settings = ConfiguredSettings
    /\ vault = EmptyVault
    /\ statusBar = setStatus("Formatting...")
    /\ run = [r \in Runs |-> NewRun]
    /\ currentPreset = ""
    /\ modal = NoFile
    /\ scope = "function"
    /\ evaluation \in
          { [fn |-> "none", arg |-> t, ret |-> <<>>, case |-> NoCase] :
              t \in TextsOf(CompletionPieces, MaxParts) }
          \cup { [fn |-> "none", arg |-> Render(c), ret |-> <<>>, case |-> c] :
                   c \in JsonCases }

\* formatText with its fetcher called, about to receive the response.
AwaitingFetch ==
    [ rec |-> [NewRun EXCEPT !.pc = "await_fetch", !.kind = "formatText"],
      status |-> setStatus("Formatting..."), vault |-> EmptyVault, provider |-> None,
      view |-> TRUE, now |-> <<>> ]

\* Lines 319-355 applied to a response whose content is the text: the
\* content after line 323, after line 325, what formatText returns and the
\* notices it shows.
ResponseArrives ==
    /\ evaluation.fn = "none"
    /\ LET m == FetchSettled(AwaitingFetch, [how |-> "content", content |-> evaluation.arg])
       IN  /\ evaluation' =
                [evaluation EXCEPT
                   !.fn = "formatText",
                   !.ret = [ stripped |-> Trim(StripThink(evaluation.arg)),
                             content |-> CleanContent(evaluation.arg),
                             result |-> m.rec.fmtResult,
                             notices |-> m.rec.notices ]]
           /\ statusBar' = m.status
    /\ UNCHANGED <<settings, vault, run, currentPreset, modal, scope>>

NextCompletion == ResponseArrives

SpecCompletion == InitCompletion /\ [][NextCompletion]_vars

\* ------------------------------------------- formatText called on its own

\* The plugin with its default settings, or with the keys entered; a modal
\* may have set currentPreset.
InitFormat ==
    /\ settings \in {DefaultSettings, ConfiguredSettings}
    /\ vault = EmptyVault
    /\ statusBar = setStatus("")
    /\ run = [r \in Runs |-> NewRun]
    /\ evaluation = NoEvaluation
    /\ currentPreset \in {""} \cup PresetNames
    /\ modal = NoFile
    /\ scope = "format"

NextFormat ==
    \E r \in Runs :
        \/ FormatSelection(r)
        \/ ClickFormat(r)
        \/ PresetSettles(r)
        \/ FetchSettles(r)
        \/ ResumeAfterFormat(r)

SpecFormat == InitFormat /\ [][NextFormat]_vars

\* ------------------------------------------------- two runs at the same time

\* Two modals, each with its OCR & Format button.
ConcurrentRuns == {"run1", "run2"}

\* The preset dropdown of a modal, lines 549-558: this.plugin.currentPreset
\* is assigned when the listing of a modal that is opened has settled (line
\* 557) and whenever the dropdown is changed (line 558), whatever the runs
\* are doing.
SelectPreset ==
    /\ \E v \in PresetNames : currentPreset' = v
    /\ UNCHANGED <<settings, vault, statusBar, run, evaluation, modal, scope>>

\* The settings the two modals are opened with: the keys entered and no
\* image subfolder.
ConcurrentSettings == [ConfiguredSettings EXCEPT !.imageSubfolder = ""]

\* The most fields in which the settings differ from ConcurrentSettings at
\* any one time.
MaxChangedSettings == 1

ChangedSettings(s) == { f \in DOMAIN s : s[f] # ConcurrentSettings[f] }

\* An onChange handler of the settings tab: this.plugin.settings.<field> =
\* value.  (saveSettings writes the plugin's data file, which no run reads.)
EditSetting(field, value) ==
    /\ value # settings[field]
    /\ settings' = [settings EXCEPT ![field] = value]
    /\ Cardinality(ChangedSettings(settings')) <= MaxChangedSettings
    /\ UNCHANGED <<vault, statusBar, run, evaluation, currentPreset, modal, scope>>

\* The field OpenRouter API Key, lines 444-447.
SetOpenRouterApiKey ==
    \E v \in {"", "openrouter-key"} : EditSetting("openRouterApiKey", v)

\* The field Fallback Model, lines 455-458.
SetFallbackModel ==
    \E v \in {<<"google/gemini-2.0-flash-exp:free">>, <<"openai/gpt-4o-mini">>} :
        EditSetting("openRouterModel", v)

\* The field Mistral API Key, lines 468-471.
SetMistralApiKey ==
    \E v \in {"", "mistral-key"} : EditSetting("mistralApiKey", v)

\* The Extract Images toggle, lines 482-485.
ToggleExtractImages == EditSetting("extractImages", ~settings.extractImages)

\* The field Image Subfolder, lines 493-496.
SetImageSubfolder ==
    \E v \in {"", "assets"} : EditSetting("imageSubfolder", v)

\* The dropdown Default Preset, lines 505-508.
SetDefaultPreset ==
    \E v \in PresetNames : EditSetting("defaultPreset", v)

\* Both modals hold the file.
InitConcurrent ==
    /\ settings = ConcurrentSettings
    /\ vault = EmptyVault
    /\ statusBar = setStatus("")
    /\ run = [r \in ConcurrentRuns |-> NewRun]
    /\ evaluation = NoEvaluation
    /\ currentPreset = ""
    /\ modal = Loaded(ScanFile)
    /\ scope = "concurrent"

NextConcurrent ==
    \/ SelectPreset
    \/ SetOpenRouterApiKey
    \/ SetFallbackModel
    \/ SetMistralApiKey
    \/ ToggleExtractImages
    \/ SetImageSubfolder
    \/ SetDefaultPreset
    \/ \E r \in ConcurrentRuns :
          \/ ClickOcrAndFormat(r)
          \/ UploadSettles(r)
          \/ SignedUrlSettles(r)
          \/ OcrProcessSettles(r)
          \/ ResumeAfterOCR(r)
          \/ CreateFolderSettles(r)
          \/ WriteSettles(r)
          \/ ResumeAfterSave(r)
          \/ PresetSettles(r)
          \/ FetchSettles(r)
          \/ ResumeAfterFormat(r)

SpecConcurrent == InitConcurrent /\ [][NextConcurrent]_vars

\* ------------------------------------------------------ the modal's file

\* The most FileReaders of a modal that have not completed.
MaxReaders == 3

\* handleFile(file), lines 816-834: the type is assigned at once and a new
\* FileReader is started on every call, whatever readers are still at work;
\* the data is assigned when the reader completes.
HandleFile ==
    /\ BagCardinality(modal.reading) < MaxReaders
    /\ \E file \in Files :
         modal' = [modal EXCEPT !.fileMimeType = Some(file.type),
                                !.reading = @ (+) SetToBag({file})]
    /\ UNCHANGED <<settings, vault, statusBar, run, evaluation, currentPreset, scope>>

\* reader.onload, lines 821-833, of any one of the readers at work.
ReaderLoads ==
    /\ \E file \in BagToSet(modal.reading) :
         modal' = [modal EXCEPT !.fileData = Some(file.data),
                                !.reading = @ (-) SetToBag({file})]
    /\ UNCHANGED <<settings, vault, statusBar, run, evaluation, currentPreset, scope>>

\* A modal just opened, no file chosen yet.
InitModal ==
    /\ settings = ConfiguredSettings
    /\ vault = EmptyVault
    /\ statusBar = setStatus("")
    /\ run = [r \in Runs |-> NewRun]
    /\ evaluation = NoEvaluation
    /\ currentPreset = settings.defaultPreset
    /\ modal = NoFile
    /\ scope = "modal"

NextModal ==
    \/ HandleFile
    \/ ReaderLoads
    \/ \E r \in Runs :
          \/ ClickOcrAndFormat(r)
          \/ ClickOcrOnly(r)

SpecModal == InitModal /\ [][NextModal]_vars

\* ================================================================== claims

Range(f) == { f[k] : k \in DOMAIN f }

CallsOf(rec, op) == Cardinality({ k \in 1..Len(rec.calls) : rec.calls[k].op = op })

\* The warning-level notices (the ones the source marks with a warning sign).
WarningNotices == {InvalidStructureNotice}

WarningCount(rec) ==
    Cardinality({ k \in 1..Len(rec.notices) : rec.notices[k] \in WarningNotices })

\* What formatText parsed, for a run whose fetcher answered a text: the
\* cleaned content, whether it is valid (parses and satisfies the schema),
\* and its formatted_markdown.
Parsed(r) ==
    LET Fields(content, parsedJson, valid) ==
            [ content |-> content,
              parses |-> parsedJson.ok,
              valid |-> valid,
              markdown |-> IF valid THEN FormattedMarkdown(parsedJson.val) ELSE <<>> ]
        OfJson(content, parsedJson) ==
            Fields(content, parsedJson, parsedJson.ok /\ SchemaAccepts(parsedJson.val))
        Of(content) == OfJson(content, JSONParse(content))
    IN  Of(CleanContent(run[r].completion.v))

\* formatText of run r has just settled on a text the fetcher answered.
Answered(r) == run[r].pc = "fmt_returned" /\ run[r].completion.some

\* C1: whatever text the fetcher answers, a parse failure or a schema
\* mismatch makes formatText neither return null nor throw: it returns a
\* text and shows exactly one warning notice.
C1_NormalizationNeverFails ==
    \A r \in Runs :
        (Answered(r) /\ ~Parsed(r).valid) =>
            /\ run[r].fmtResult.ret = "string"
            /\ WarningCount(run[r]) = 1

C1_Witness ==
    \E r \in Runs :
        /\ Answered(r)
        /\ ~Parsed(r).parses
        /\ run[r].fmtResult.ret = "string"
        /\ WarningCount(run[r]) = 1

\* C2 as stated: on the fallback path formatText returns
\* cleanLatexDelimiters(cleaned text).
C2_FallbackCanonicalized ==
    \A r \in Runs :
        (Answered(r) /\ ~Parsed(r).valid) =>
            run[r].fmtResult = RetString(cleanLatexDelimiters(Parsed(r).content))

\* C2 amended: on the fallback path formatText returns the cleaned text
\* itself (think blocks removed, trimmed, fences removed), not passed through
\* cleanLatexDelimiters.
C2_FallbackVerbatim ==
    \A r \in Runs :
        (Answered(r) /\ ~Parsed(r).valid) =>
            run[r].fmtResult = RetString(Parsed(r).content)

C2_Witness ==
    \E r \in Runs :
        /\ Answered(r)
        /\ ~Parsed(r).valid
        /\ run[r].completion.v # Parsed(r).content
        /\ cleanLatexDelimiters(Parsed(r).content) # Parsed(r).content
        /\ run[r].fmtResult = RetString(Parsed(r).content)

\* C3: on the valid path formatText returns
\* cleanLatexDelimiters(formatted_markdown) and shows no warning notice.
C3_ValidPath ==
    \A r \in Runs :
        (Answered(r) /\ Parsed(r).valid) =>
            /\ run[r].fmtResult = RetString(cleanLatexDelimiters(Parsed(r).markdown))
            /\ WarningCount(run[r]) = 0

C3_Witness ==
    \E r \in Runs :
        /\ Answered(r)
        /\ Parsed(r).valid
        /\ run[r].fmtResult.ret = "string"
        /\ run[r].fmtResult.val # Parsed(r).markdown
        /\ WarningCount(run[r]) = 0

\* ---- the OCR stage

PageText(page) == IF page.markdown.some THEN page.markdown.v ELSE <<>>

PageTexts(pages) == [k \in 1..Len(pages) |-> PageText(pages[k])]

\* The texts with one separator between each two neighbours.
RECURSIVE JoinTexts(_)
JoinTexts(ts) ==
    IF ts = <<>> THEN <<>>
    ELSE IF Len(ts) = 1 THEN ts[1]
    ELSE ts[1] \o PageSeparator \o JoinTexts(Tail(ts))

\* The texts, the first without its leading and the last without its
\* trailing white space.
TrimmedAtEnds(ts) ==
    [k \in 1..Len(ts) |->
        LET a == IF k = 1 THEN TrimStart(ts[k]) ELSE ts[k]
        IN  IF k = Len(ts) THEN TrimEnd(a) ELSE a]

NonBlank(t) == Trim(t) # <<>>

RuleCount(t) == Cardinality({ k \in 1..Len(t) : t[k] = "---" })

\* performMistralOCR of run r has just returned the result of a response
\* with n >= 1 pages.
ReturnedPages(r) ==
    /\ run[r].pc = "ocr_returned"
    /\ run[r].ocrResponse.v.hasPages
    /\ Len(run[r].ocrResponse.v.pages) >= 1

\* C4 as stated: for every response with n >= 1 pages, empty or absent page
\* markdown included, the markdown returned holds exactly n-1 separator
\* markers and neither begins nor ends with one.
C4_NoSeparatorAtEnds ==
    \A r \in Runs :
        ReturnedPages(r) =>
            LET md == run[r].ocrResult.markdown
            IN  /\ RuleCount(md) = Len(run[r].ocrResponse.v.pages) - 1
                /\ ~StartsWith(md, <<"---">>)
                /\ ~EndsWith(md, <<"---">>)

\* C4 amended: the markdown returned is the pages' markdown in order (empty
\* when absent) with n-1 separator markers, one between each two consecutive
\* pages, the whole then trimmed.  When the first and the last page are not
\* blank all n-1 markers are in it, each between two pages, and it begins
\* with the first page's text and ends with the last page's.  When every
\* page is blank it is the n-1 markers with the pages between them, which
\* for one page is the empty text.  Of two or more pages, a blank first page
\* makes it begin with the rule of the first marker and a blank last page
\* makes it end with the rule of the last.
C4_TrimmedPageJoin ==
    \A r \in Runs :
        ReturnedPages(r) =>
            LET md == run[r].ocrResult.markdown
                ts == PageTexts(run[r].ocrResponse.v.pages)
                n == Len(ts)
            IN  /\ md = Trim(JoinTexts(ts))
                /\ (NonBlank(ts[1]) /\ NonBlank(ts[n])) =>
                      /\ md = JoinTexts(TrimmedAtEnds(ts))
                      /\ RuleCount(md) = n - 1
                      /\ ~StartsWith(md, <<"---">>)
                      /\ ~EndsWith(md, <<"---">>)
                /\ (n = 1 /\ ~NonBlank(ts[1])) => md = <<>>
                /\ (n >= 2 /\ ~NonBlank(ts[1])) => StartsWith(md, <<"---">>)
                /\ (n >= 2 /\ ~NonBlank(ts[n])) => EndsWith(md, <<"---">>)
                /\ (n >= 2 /\ (~NonBlank(ts[1]) \/ ~NonBlank(ts[n]))) =>
                      RuleCount(md) = n - 1

\* Three pages, the first white space only and the last absent, around a
\* page with text: the markdown begins and ends with a rule.
C4_Witness ==
    \E r \in Runs :
        /\ ReturnedPages(r)
        /\ LET pages == run[r].ocrResponse.v.pages
           IN  /\ Len(pages) = 3
               /\ pages[1].markdown = Some(<<" ">>)
               /\ pages[2].markdown = Some(<<" ", "B", "LF">>)
               /\ pages[3].markdown = None
               /\ run[r].ocrResult.markdown =
                    <<"---", "LF", "LF", " ", "B", "LF", "LF", "LF", "---">>

\* C5: performMistralOCR never returns a result whose markdown is empty.
C5_NeverReturnsEmpty ==
    \A r \in Runs :
        run[r].pc = "ocr_returned" => run[r].ocrResult.markdown # <<>>

\* C6: with an empty mistralApiKey performMistralOCR fails at once and the
\* run issues no upload, no signed-URL request and no OCR request.
C6_AuthGate ==
    \A r \in Runs :
        (settings.mistralApiKey = "" /\ run[r].kind \in {"processImage", "ocrOnly"}) =>
            /\ run[r].ocrError = <<"Mistral API Key not configured">>
            /\ run[r].calls = <<>>
            /\ run[r].pc \in {"ocr_threw", "done"}

C6_Witness ==
    \E r \in Runs :
        /\ settings.mistralApiKey = ""
        /\ run[r].kind = "processImage"
        /\ run[r].pc = "ocr_threw"
        /\ run[r].calls = <<>>

\* ---- image persistence

Ids(list) == [k \in 1..Len(list) |-> list[k].id]

IsOk(entry) == entry.ok

\* C7: whichever writes fail, saveOCRImages goes on to every remaining
\* image, throws nothing for a failed write, and returns a mapping whose keys
\* are exactly the images written.  (It throws only before the first write,
\* when the folder cannot be created.)
C7_PartialPersistence ==
    \A r \in Runs :
        /\ run[r].pc = "save_returned" =>
              /\ Ids(run[r].writeLog) = Ids(run[r].ocrResult.images)
              /\ Ids(run[r].savedPaths) = Ids(SelectSeq(run[r].writeLog, IsOk))
        /\ run[r].pc = "save_threw" => run[r].writeLog = <<>>
        /\ run[r].pc = "await_write" =>
              /\ Len(run[r].writeLog) = run[r].saveIdx - 1
              /\ Ids(run[r].savedPaths) = Ids(SelectSeq(run[r].writeLog, IsOk))

C7_Witness ==
    \E r \in Runs :
        /\ run[r].pc = "save_returned"
        /\ Len(run[r].writeLog) = 3
        /\ ~run[r].writeLog[1].ok
        /\ run[r].writeLog[2].ok
        /\ ~run[r].writeLog[3].ok
        /\ Ids(run[r].savedPaths) = <<run[r].writeLog[2].id>>

\* Something failed inside saveOCRImages.
PersistenceFailed(rec) ==
    \/ rec.saveError # <<>>
    \/ \E k \in 1..Len(rec.writeLog) : ~rec.writeLog[k].ok

\* C8: whatever fails inside saveOCRImages, processImage still sends the OCR
\* markdown to the formatter and returns the formatter's result.
C8_PersistenceNeverAborts ==
    \A r \in Runs :
        (run[r].kind = "processImage" /\ run[r].pc = "done" /\ PersistenceFailed(run[r])) =>
            /\ \E k \in 1..Len(run[r].calls) :
                  /\ run[r].calls[k].op = "fetcher"
                  /\ run[r].calls[k].user = userMessage(run[r].ocrResult.markdown)
            /\ run[r].fmtResult # Pending
            /\ run[r].result = run[r].fmtResult

\* ---- the orchestration

\* performMistralOCR of run r threw, or returned an empty markdown.
OcrStageFailed(rec) ==
    \/ rec.ocrError # <<>>
    \/ /\ rec.pc \notin {"idle", "await_upload", "await_url", "await_process"}
       /\ rec.ocrResult.markdown = <<>>

\* C9: when the OCR stage fails or yields empty markdown, processImage
\* issues no completion request, persists no image, does not call the OCR
\* stage again, and returns null.
C9_OcrFailureAborts ==
    \A r \in Runs :
        (run[r].kind = "processImage" /\ OcrStageFailed(run[r])) =>
            /\ run[r].pc \in {"ocr_threw", "ocr_returned", "done"}
            /\ CallsOf(run[r], "fetcher") = 0
            /\ run[r].saveIdx = 0 /\ run[r].writeLog = <<>> /\ run[r].savedPaths = <<>>
            /\ CallsOf(run[r], "files.upload") <= 1
            /\ CallsOf(run[r], "files.getSignedUrl") <= 1
            /\ CallsOf(run[r], "ocr.process") <= 1
            /\ run[r].pc = "done" => (run[r].result = RetNull /\ ~run[r].inserted.some)

C9_Witness ==
    \E r \in Runs :
        /\ run[r].kind = "processImage"
        /\ run[r].pc = "done"
        /\ run[r].ocrError = <<>>
        /\ run[r].ocrResult.markdown = <<>>
        /\ Len(run[r].ocrResult.images) > 0
        /\ run[r].result = RetNull
        /\ CallsOf(run[r], "fetcher") = 0

\* formatText of run r called the fetcher and got no content from it.
FetchFailed(rec) ==
    /\ rec.pc \in {"fmt_returned", "done"}
    /\ CallsOf(rec, "fetcher") >= 1
    /\ ~rec.completion.some

\* C10: when the fetch fails the run returns null after exactly one call of
\* the fetcher, and every image the run stored is still in the vault.
C10_FetchFailureKeepsImages ==
    \A r \in Runs :
        FetchFailed(run[r]) =>
            /\ CallsOf(run[r], "fetcher") = 1
            /\ run[r].fmtResult = RetNull
            /\ run[r].pc = "done" => run[r].result = RetNull
            /\ \A k \in 1..Len(run[r].savedPaths) :
                  LET saved == run[r].savedPaths[k]
                  IN  /\ saved.path \in DOMAIN vault
                      /\ \E i \in 1..Len(run[r].ocrResult.images) :
                            /\ run[r].ocrResult.images[i].id = saved.id
                            /\ vault[saved.path] = File(run[r].ocrResult.images[i].data)

C10_Witness ==
    \E r \in Runs :
        /\ run[r].kind = "processImage"
        /\ run[r].pc = "done"
        /\ FetchFailed(run[r])
        /\ run[r].result = RetNull
        /\ Len(run[r].savedPaths) = 2
        /\ \A k \in 1..2 : run[r].savedPaths[k].path \in DOMAIN vault

\* ---- the completion request

\* An override was given: modelOverride is a non-empty string (line 279 and
\* line 282 test it with ||, so undefined and "" both count as not given).
OverrideGiven(rec) == rec.modelOverride.some /\ rec.modelOverride.v # <<>>

FetcherCalls(rec) == { k \in 1..Len(rec.calls) : rec.calls[k].op = "fetcher" }

\* C11: the model of the completion request is the override when one is
\* given, else the provider's configured model when a provider is present,
\* else settings.openRouterModel.
C11_ModelPrecedence ==
    \A r \in Runs :
        \A k \in FetcherCalls(run[r]) :
            LET model == run[r].calls[k].model
            IN  /\ OverrideGiven(run[r]) => model = run[r].modelOverride.v
                /\ (~OverrideGiven(run[r]) /\ run[r].provider.some) =>
                      model = run[r].provider.v
                /\ (~OverrideGiven(run[r]) /\ ~run[r].provider.some) =>
                      model = settings.openRouterModel

C11_Witness ==
    \E r \in Runs :
        /\ OverrideGiven(run[r])
        /\ run[r].provider.some
        /\ run[r].provider.v # <<>>
        /\ run[r].provider.v # run[r].modelOverride.v
        /\ \E k \in FetcherCalls(run[r]) : run[r].calls[k].model = run[r].modelOverride.v

\* ---- the canonicalizer

\* cleanLatexDelimiters has been applied to a text.
Canonicalized == evaluation.fn = "cleanLatexDelimiters"

\* The characters lines 386-387 replace.
ScrubbedCharacters == {"NBSP"} \cup UnicodeSpaces

\* The text with a space in the place of each such character.
Spaced(t) == [k \in 1..Len(t) |-> IF t[k] \in ScrubbedCharacters THEN " " ELSE t[k]]

\* The positions from lo to hi where the two-character delimiter d lies
\* wholly within lo..hi.
Occurrences(t, d, lo, hi) ==
    { k \in lo..(hi - 1) : t[k] = d[1] /\ t[k + 1] = d[2] }

\* In t, the first opening delimiter is at i and the nearest closing
\* delimiter after it is at j.
FirstSpan(t, open, close, i, j) ==
    /\ i \in Occurrences(t, open, 1, Len(t))
    /\ j \in Occurrences(t, close, i + 2, Len(t))
    /\ Occurrences(t, open, 1, i) = {}
    /\ Occurrences(t, close, i + 2, j) = {}

\* What lies between the delimiters at i and j, and its trimmed form.
Inner(t, i, j) == SubSeq(t, i + 2, j - 1)

BlockFor(content) == <<"$", "$", "LF">> \o content \o <<"LF", "$", "$">>

\* C12: every block between \[ and the nearest following \] is replaced by
\* $$, a line feed, the trimmed inner text, a line feed, $$; texts with one
\* block and texts with two independent blocks are rewritten block by block
\* (stated for texts without an inline opening delimiter, which the later
\* inline rewrite leaves as the block rewrite made them).
C12_BlockRewrite ==
    Canonicalized =>
        LET t == Spaced(evaluation.arg)
            n == Len(t)
            out == evaluation.ret
        IN  Occurrences(t, InlineOpen, 1, n) = {} =>
              /\ (\A i \in Occurrences(t, BlockOpen, 1, n) :
                      Occurrences(t, BlockClose, i + 2, n) = {})
                    => out = t
              /\ \A i \in Occurrences(t, BlockOpen, 1, n), j \in Occurrences(t, BlockClose, 1, n) :
                    FirstSpan(t, BlockOpen, BlockClose, i, j) =>
                        LET first == SubSeq(t, 1, i - 1) \o BlockFor(Trim(Inner(t, i, j)))
                            rest == SubSeq(t, j + 2, n)
                            m == Len(rest)
                        IN  /\ Occurrences(rest, BlockOpen, 1, m) = {} => out = first \o rest
                            /\ \A i2 \in Occurrences(rest, BlockOpen, 1, m),
                                  j2 \in Occurrences(rest, BlockClose, 1, m) :
                                  ( /\ FirstSpan(rest, BlockOpen, BlockClose, i2, j2)
                                    /\ Occurrences(rest, BlockOpen, j2 + 2, m) = {} ) =>
                                      out = first \o SubSeq(rest, 1, i2 - 1)
                                              \o BlockFor(Trim(Inner(rest, i2, j2)))
                                              \o SubSeq(rest, j2 + 2, m)

\* Two blocks one after the other, the first with content.
C12_Witness ==
    /\ Canonicalized
    /\ evaluation.arg = BlockOpen \o <<"a">> \o BlockClose \o BlockOpen \o BlockClose
    /\ evaluation.ret = BlockFor(<<"a">>) \o BlockFor(<<>>)

InlineFor(content) == <<"$">> \o content \o <<"$">>

\* C13: every span between \( and the nearest following \) is
\* replaced by $, the trimmed inner text, $, whatever the span contains
\* (stated for texts without a block opening delimiter).
C13_EveryInlineSpan ==
    Canonicalized =>
        LET t == Spaced(evaluation.arg)
            n == Len(t)
            out == evaluation.ret
        IN  Occurrences(t, BlockOpen, 1, n) = {} =>
              \A i \in Occurrences(t, InlineOpen, 1, n), j \in Occurrences(t, InlineClose, 1, n) :
                  ( /\ FirstSpan(t, InlineOpen, InlineClose, i, j)
                    /\ Occurrences(t, InlineOpen, j + 2, n) = {} ) =>
                      out = SubSeq(t, 1, i - 1) \o InlineFor(Trim(Inner(t, i, j)))
                              \o SubSeq(t, j + 2, n)

\* C14: the output holds none of the characters of lines 386-387; for a text
\* without math delimiters it is the input with one space in the place of
\* each such character, of the same length; the empty text maps to itself.
C14_WhitespaceScrub ==
    Canonicalized =>
        LET t == evaluation.arg
            n == Len(t)
            out == evaluation.ret
            delimiters == Occurrences(t, BlockOpen, 1, n) \cup Occurrences(t, BlockClose, 1, n)
                          \cup Occurrences(t, InlineOpen, 1, n)
                          \cup Occurrences(t, InlineClose, 1, n)
        IN  /\ \A k \in 1..Len(out) : out[k] \notin ScrubbedCharacters
            /\ t = <<>> => out = <<>>
            /\ delimiters = {} =>
                  /\ Len(out) = n
                  /\ \A k \in 1..n :
                        out[k] = IF t[k] \in ScrubbedCharacters THEN " " ELSE t[k]

C14_Witness ==
    /\ Canonicalized
    /\ evaluation.arg = <<"a", "NBSP", "U200B", "LF", "a">>
    /\ evaluation.ret = <<"a", " ", " ", "LF", "a">>

\* ---- the upload

UploadError == <<"Mistral OCR Failed: ", "Failed to upload file to Mistral">>

\* C15: when the upload answers nothing, or something without an id,
\* performMistralOCR fails with the upload error and the run issues neither
\* the signed-URL request nor the OCR request.
C15_UploadWithoutId ==
    \A r \in Runs :
        run[r].uploadedFile \in {"null", "no id"} =>
            /\ run[r].ocrError = UploadError
            /\ run[r].pc \in {"ocr_threw", "done"}
            /\ CallsOf(run[r], "files.upload") = 1
            /\ CallsOf(run[r], "files.getSignedUrl") = 0
            /\ CallsOf(run[r], "ocr.process") = 0

C15_Witness ==
    \E r \in Runs :
        /\ run[r].uploadedFile = "no id"
        /\ run[r].pc = "ocr_threw"
        /\ run[r].ocrError = UploadError
        /\ CallsOf(run[r], "files.getSignedUrl") = 0

\* ---- the images of the OCR result

\* The payload without a leading data URL prefix: what follows the first
\* comma when the payload starts with data:.
AfterPrefix(payload) ==
    IF payload # <<>> /\ payload[1] = "data:"
    THEN LET commas == { k \in 1..Len(payload) : payload[k] = "," }
         IN  IF commas = {} THEN <<>>
             ELSE SubSeq(payload, (CHOOSE k \in commas : \A c \in commas : k <= c) + 1,
                         Len(payload))
    ELSE payload

\* Every image of every page of the response of run r.
ImagesSent(r) ==
    UNION { Range(run[r].ocrResponse.v.pages[p].images) :
              p \in 1..Len(run[r].ocrResponse.v.pages) }

\* C16: every image of every page that has a payload is in the OCR result
\* under its id, its payload without the data URL prefix; an image without
\* payload is not in the result, and the extraction returns all the same.
C16_ImageExtraction ==
    \A r \in Runs :
        (run[r].pc = "ocr_returned" /\ run[r].ocrResponse.v.hasPages) =>
            LET stored == Range(run[r].ocrResult.images)
            IN  /\ \A g \in ImagesSent(r) :
                      IF AfterPrefix(g.imageBase64) # <<>>
                      THEN [id |-> g.id, data |-> AfterPrefix(g.imageBase64)] \in stored
                      ELSE \A e \in stored : e.id # g.id
                /\ \A e \in stored :
                      \E g \in ImagesSent(r) :
                          g.id = e.id /\ AfterPrefix(g.imageBase64) = e.data

C16_Witness ==
    \E r \in Runs :
        /\ run[r].pc = "ocr_returned"
        /\ [id |-> <<"img-0.jpeg">>, imageBase64 |-> DataUrlPayload] \in ImagesSent(r)
        /\ [id |-> <<"img-1.jpeg">>, imageBase64 |-> <<>>] \in ImagesSent(r)
        /\ Ids(run[r].ocrResult.images) = << <<"3">>, <<"img-0.jpeg">>, <<"img-2.jpeg">> >>
        /\ run[r].ocrResult.images[2].data = <<"QUJD">>

\* ---- the stored paths

\* base_folder[/subfolder]/image_id
StoredPath(basePath, id) ==
    IF settings.imageSubfolder = ""
    THEN basePath \o <<"/">> \o id
    ELSE basePath \o <<"/", settings.imageSubfolder, "/">> \o id

ImageOf(rec, id) == CHOOSE g \in Range(rec.ocrResult.images) : g.id = id

\* saveOCRImages of run r has handled every image and returned.
SaveReturned(r) == run[r].pc = "save_returned" /\ Len(run[r].ocrResult.images) > 0

\* C17 as stated: every image is stored at base_folder[/subfolder]/image_id,
\* overwriting what is at that path or creating the file, and its id maps
\* to that path in the mapping returned.
C17_EveryImageStored ==
    \A r \in Runs :
        SaveReturned(r) =>
            \A g \in Range(run[r].ocrResult.images) :
                LET path == StoredPath(run[r].basePath, g.id)
                IN  /\ [id |-> g.id, path |-> path] \in Range(run[r].savedPaths)
                    /\ path \in DOMAIN vault
                    /\ vault[path] = File(g.data)

\* C17 amended: the path of an image is base_folder[/subfolder]/image_id;
\* when a file is at that path it is overwritten (modifyBinary), otherwise
\* it is created (createBinary); an image whose write succeeded is at its
\* path with its content and its id maps to that path; an image whose
\* decoding or write failed, as the creation does when a folder is at the
\* path, is not in the mapping.
C17_StoredWhenWritten ==
    \A r \in Runs :
        /\ run[r].pc = "await_write" =>
              LET g == run[r].ocrResult.images[run[r].saveIdx]
                  path == StoredPath(run[r].basePath, g.id)
                  fileThere == path \in DOMAIN vault /\ vault[path].type = "file"
              IN  run[r].writeOp = IF fileThere THEN "modifyBinary" ELSE "createBinary"
        /\ \A k \in 1..Len(run[r].savedPaths) :
              LET e == run[r].savedPaths[k]
              IN  /\ e.path = StoredPath(run[r].basePath, e.id)
                  /\ e.path \in DOMAIN vault
                  /\ vault[e.path] = File(ImageOf(run[r], e.id).data)
        /\ \A k \in 1..Len(run[r].writeLog) :
              LET w == run[r].writeLog[k]
              IN  w.ok <=> \E e \in Range(run[r].savedPaths) : e.id = w.id
        /\ \A g \in Range(run[r].ocrResult.images) :
              LET path == StoredPath(run[r].basePath, g.id)
              IN  (run[r].saveIdx > 0 /\ path \in DOMAIN vault /\ vault[path].type = "folder")
                      => \A e \in Range(run[r].savedPaths) : e.id # g.id

\* One image written over the file that was at its path, one created, one
\* that could not be decoded.
C17_Witness ==
    \E r \in Runs :
        /\ SaveReturned(r)
        /\ settings.imageSubfolder = "assets"
        /\ run[r].basePath = <<"notes">>
        /\ run[r].savedPaths =
              << [id |-> <<"img-0.jpeg">>, path |-> <<"notes", "/", "assets", "/", "img-0.jpeg">>],
                 [id |-> <<"img-2.jpeg">>, path |-> <<"notes", "/", "assets", "/", "img-2.jpeg">>] >>
        /\ vault[<<"notes", "/", "assets", "/", "img-0.jpeg">>] = File(<<"QUJD">>)
        /\ vault[<<"notes", "/", "assets", "/", "img-2.jpeg">>] = File(<<"QUJD">>)

\* ---- the cleaning of the completion and the schema

\* formatText has handled a response with the text as its content.
Handled == evaluation.fn = "formatText"

ThinkOpenings == {"<think>", "<THINK>"}
ThinkClosings == {"</think>", "</Think>"}

\* The positions from lo to hi of t that hold one of the markers.
Markers(t, markers, lo, hi) == { k \in lo..hi : k >= 1 /\ k <= Len(t) /\ t[k] \in markers }

\* In t, the first opening marker is at i and the nearest closing marker
\* after it is at j.
FirstThink(t, i, j) ==
    /\ i \in Markers(t, ThinkOpenings, 1, Len(t))
    /\ j \in Markers(t, ThinkClosings, i + 1, Len(t))
    /\ Markers(t, ThinkOpenings, 1, i - 1) = {}
    /\ Markers(t, ThinkClosings, i + 1, j - 1) = {}

\* The valid path taken with the markdown: formatText returns it and shows
\* no warning.
ValidPathWith(ret, markdown) ==
    /\ ret.result = RetString(markdown)
    /\ \A k \in 1..Len(ret.notices) : ret.notices[k] # InvalidStructureNotice

\* The fallback path: the warning, and the cleaned content returned.
FallbackPath(ret) ==
    /\ ret.result = RetString(ret.content)
    /\ \E k \in 1..Len(ret.notices) : ret.notices[k] = InvalidStructureNotice

\* formatted_markdown of ValidObject, canonicalized.
ValidObjectMarkdown == <<"#", " ", "T", "LF", "$", "a", "$">>

\* C18: every think block, from an opening marker in any letter case to the
\* nearest closing marker in any letter case, line feeds inside included, is
\* removed with its markers, one block or two; what is left is trimmed, and
\* when that is a schema-valid object (optionally fenced) formatText takes
\* the valid path and returns its formatted_markdown.
C18_ThinkBlocksRemoved ==
    Handled =>
        LET t == evaluation.arg
            n == Len(t)
            ret == evaluation.ret
        IN  /\ Markers(t, ThinkOpenings, 1, n) = {} => ret.stripped = Trim(t)
            /\ \A i \in Markers(t, ThinkOpenings, 1, n), j \in Markers(t, ThinkClosings, 1, n) :
                  FirstThink(t, i, j) =>
                      LET pre == SubSeq(t, 1, i - 1)
                          rest == SubSeq(t, j + 1, n)
                          m == Len(rest)
                      IN  /\ Markers(rest, ThinkOpenings, 1, m) = {} =>
                                /\ ret.stripped = Trim(pre \o rest)
                                /\ Trim(pre \o rest) = ValidObject =>
                                      ValidPathWith(ret, ValidObjectMarkdown)
                          /\ \A i2 \in Markers(rest, ThinkOpenings, 1, m),
                                j2 \in Markers(rest, ThinkClosings, 1, m) :
                                ( /\ FirstThink(rest, i2, j2)
                                  /\ Markers(rest, ThinkOpenings, j2 + 1, m) = {} ) =>
                                    ret.stripped =
                                        Trim(pre \o SubSeq(rest, 1, i2 - 1) \o SubSeq(rest, j2 + 1, m))

\* A block in upper and mixed case with a line feed inside, then the object.
C18_Witness ==
    /\ Handled
    /\ evaluation.arg = <<"<THINK>", "LF", "</Think>">> \o ValidObject
    /\ evaluation.ret.stripped = ValidObject
    /\ ValidPathWith(evaluation.ret, ValidObjectMarkdown)

\* The forms of a leading fence and of a trailing fence.
LeadingFences == { <<>>, Fence, Fence \o <<"json">>, Fence \o <<"json", "LF">> }
TrailingFences == { <<>>, Fence }

\* A text that neither begins nor ends with a fence, nor begins with what a
\* fence tagged json takes along (the tag, white space).
Unfenced(x) ==
    \/ x = <<>>
    \/ /\ x[1] \notin {"FENCE", "json"} \cup WhiteSpace
       /\ x[Len(x)] # "FENCE"

\* C19: whatever the text x between them, a leading fence (bare or tagged
\* json) and a trailing fence are removed from the text line 325 is given,
\* each whether or not the other is there; x without fences is left as it is.
C19_FencesRemoved ==
    Handled =>
        LET c == evaluation.ret.stripped
            n == Len(c)
        IN  \A lead \in LeadingFences, trail \in TrailingFences :
              ( /\ Len(lead) + Len(trail) <= n
                /\ SubSeq(c, 1, Len(lead)) = lead
                /\ SubSeq(c, n - Len(trail) + 1, n) = trail
                /\ Unfenced(SubSeq(c, Len(lead) + 1, n - Len(trail))) ) =>
                    evaluation.ret.content = SubSeq(c, Len(lead) + 1, n - Len(trail))

\* A leading fence alone, in front of the object.
C19_Witness ==
    /\ Handled
    /\ evaluation.arg = Fence \o <<"json", "LF">> \o ValidObject
    /\ evaluation.ret.content = ValidObject
    /\ ValidPathWith(evaluation.ret, ValidObjectMarkdown)

\* The markdown of a case whose formatted_markdown is a string.
CaseMarkdown(c) ==
    CASE c.fm = "string" -> <<"o", "k">>
      [] c.fm = "escaped" -> <<"A", "CR", "BS", "FF", " ", "x">>
      [] OTHER -> <<>>

\* The case is a JSON object whose formatted_markdown is a string and whose
\* confidence_score is absent or a number.
CaseAccepted(c) ==
    /\ c.shape \in {"object", "reversed", "extra member"}
    /\ c.fm \in {"string", "empty", "escaped"}
    /\ c.cs \in {"absent", "fraction", "above", "negative", "zero", "exponent"}

\* C20: a completion takes the valid path exactly when it is a JSON object
\* whose formatted_markdown is a string and whose confidence_score is absent
\* or a number, of any value; every other text takes the fallback path.
C20_SchemaAcceptance ==
    (Handled /\ evaluation.case.shape # "text") =>
        IF CaseAccepted(evaluation.case)
        THEN ValidPathWith(evaluation.ret, CaseMarkdown(evaluation.case))
        ELSE FallbackPath(evaluation.ret)

\* A confidence_score above 1 is accepted.
C20_Witness ==
    /\ Handled
    /\ evaluation.arg = <<"{", Q, "confidence_score", Q, ":", " ", "7", ",", " ",
                          Q, "formatted_markdown", Q, ":", " ", Q, "o", "k", Q, "}">>
    /\ ValidPathWith(evaluation.ret, <<"o", "k">>)

\* A text is in canonical form: it holds no block \[ ... \], no span
\* \( ... \) and none of the characters of lines 386-387.
HasSpan(t, open, close) ==
    \E i \in Occurrences(t, open, 1, Len(t)) : Occurrences(t, close, i + 2, Len(t)) # {}

CanonicalForm(t) ==
    /\ ~HasSpan(t, BlockOpen, BlockClose)
    /\ ~HasSpan(t, InlineOpen, InlineClose)
    /\ \A k \in 1..Len(t) : t[k] \notin ScrubbedCharacters

\* C25: the output of cleanLatexDelimiters is in canonical form, and
\* applying cleanLatexDelimiters to it again changes nothing.
C25_CanonicalAndIdempotent ==
    Canonicalized =>
        /\ CanonicalForm(evaluation.ret)
        /\ cleanLatexDelimiters(evaluation.ret) = evaluation.ret

\* ---- the status bar

\* A run has finished and no run is in flight.
AllWorkEnded ==
    /\ \E r \in DOMAIN run : run[r].pc = "done"
    /\ \A r \in DOMAIN run : run[r].pc \in {"idle", "done"}

\* C26: when work has ended (the OCR button's run, processImage or
\* formatText has finished, whatever the outcome, and nothing else is in
\* flight) the status bar shows no text.
C26_StatusClearedAtEnd == AllWorkEnded => statusBar = <<>>

\* ---- the order of the steps

\* The remote calls of processImage in the order of lines 168, 181, 189, 312.
StepOrder == <<"files.upload", "files.getSignedUrl", "ocr.process", "fetcher">>

\* The operations a run has called, in the order of issue.
Ops(rec) == [k \in 1..Len(rec.calls) |-> rec.calls[k].op]

IsPrefix(s, t) == Len(s) <= Len(t) /\ s = SubSeq(t, 1, Len(s))

\* The calls of a run that have not settled yet.
Outstanding(rec) ==
    CASE rec.pc = "await_upload" -> {"files.upload"}
      [] rec.pc = "await_url" -> {"files.getSignedUrl"}
      [] rec.pc = "await_process" -> {"ocr.process"}
      [] rec.pc = "await_mkdir" -> {"createFolder"}
      [] rec.pc = "await_write" -> {rec.writeOp}
      [] rec.pc = "await_preset" -> {"getPresetContent"}
      [] rec.pc = "await_fetch" -> {"fetcher"}
      [] OTHER -> {}

\* Every image of the OCR result has had its write, in the order of the
\* result, each once.
PersistenceDone(rec) == Ids(rec.writeLog) = Ids(rec.ocrResult.images)

\* C23: a processImage run calls upload, getSignedUrl, ocr.process and the
\* fetcher in this order and each at most once; a call is issued only when
\* the one before it has settled, so at most one is outstanding; the images
\* are written one after the other between ocr.process and the fetcher,
\* each once, and all of them have been handled when the fetcher is called.
C23_SequentialSteps ==
    \A r \in Runs :
        LET rec == run[r]
            ops == Ops(rec)
            ids == Ids(rec.ocrResult.images)
        IN  rec.kind = "processImage" =>
              /\ IsPrefix(ops, StepOrder)
              /\ Cardinality(Outstanding(rec)) <= 1
              /\ \A op \in Outstanding(rec) \cap Range(StepOrder) : ops[Len(ops)] = op
              /\ rec.pc = "ocr_returned" => ops = SubSeq(StepOrder, 1, 3)
              /\ \A i, j \in 1..Len(ids) : ids[i] = ids[j] => i = j
              /\ IsPrefix(Ids(rec.writeLog), ids)
              /\ rec.writeLog # <<>> => Len(ops) >= 3
              /\ rec.pc \in {"await_mkdir", "await_write", "save_returned", "save_threw"} =>
                    ops = SubSeq(StepOrder, 1, 3)
              /\ rec.pc = "await_write" => Len(rec.writeLog) = rec.saveIdx - 1
              /\ rec.pc = "await_mkdir" => rec.writeLog = <<>>
              /\ rec.pc \in {"save_returned", "await_preset", "await_fetch", "fmt_returned"} =>
                    PersistenceDone(rec)
              /\ (\E k \in 1..Len(ops) : ops[k] = "fetcher") => PersistenceDone(rec)

C23_Witness ==
    \E r \in Runs :
        /\ run[r].kind = "processImage"
        /\ run[r].pc = "await_fetch"
        /\ Ops(run[r]) = StepOrder
        /\ Len(run[r].writeLog) = 3
        /\ run[r].writeLog[2].ok
        /\ Len(run[r].savedPaths) = 1

\* ---- the system message

\* The fetcher has been called in run r; the system message it was given.
FetcherCalled(r) == FetcherCalls(run[r]) # {}

SystemMessage(r) == run[r].calls[CHOOSE k \in FetcherCalls(run[r]) : TRUE].system

CustomBlock(customInstruction) ==
    <<"LF", "LF", "[USER CUSTOM INSTRUCTION]", "LF">> \o customInstruction

SchemaSuffix == <<"LF", "LF">> \o zodInstruction

\* The system message is base, then the custom block when wanted, then the
\* suffix.
ComposedOf(system, base, customInstruction, wanted) ==
    system = base \o (IF wanted THEN CustomBlock(customInstruction) ELSE <<>>) \o SchemaSuffix

\* C21 as stated: the message starts with the built-in default instruction
\* if and only if the named preset is absent from the store, otherwise with
\* the text of the preset; the custom block follows if and only if the
\* custom instruction has non-whitespace content; the suffix ends it.
C21_DefaultOnlyWhenAbsent ==
    \A r \in Runs :
        FetcherCalled(r) =>
            LET rec == run[r]
                base == IF rec.preset.how = "null" THEN ACADEMIC_BLUE_PROMPT
                        ELSE rec.preset.content
            IN  ComposedOf(SystemMessage(r), base, rec.customInstruction,
                           \E k \in 1..Len(rec.customInstruction) :
                               rec.customInstruction[k] \notin WhiteSpace)

\* C21: the message starts with the text of the selected preset, or with
\* the built-in default instruction if and only if the preset is absent from
\* the store or its file is empty; the custom block follows if and only if
\* the custom instruction has non-whitespace content; the suffix ends it.
C21_SystemMessage ==
    \A r \in Runs :
        FetcherCalled(r) =>
            LET rec == run[r]
                absent == rec.preset.how = "null"
                empty == rec.preset.how = "content" /\ rec.preset.content = <<>>
                base == IF absent \/ empty THEN ACADEMIC_BLUE_PROMPT
                        ELSE rec.preset.content
            IN  /\ rec.preset.how \in {"null", "content"}
                /\ ComposedOf(SystemMessage(r), base, rec.customInstruction,
                              \E k \in 1..Len(rec.customInstruction) :
                                  rec.customInstruction[k] \notin WhiteSpace)

C21_Witness ==
    \E r \in Runs :
        /\ FetcherCalled(r)
        /\ run[r].preset = [how |-> "content", content |-> <<>>]
        /\ run[r].customInstruction = <<"N", "o", " ", "t", "a", "b", "l", "e", "s">>
        /\ SystemMessage(r) =
              <<"ACADEMIC_BLUE_PROMPT", "LF", "LF", "[USER CUSTOM INSTRUCTION]", "LF",
                "N", "o", " ", "t", "a", "b", "l", "e", "s", "LF", "LF", "ZOD_INSTRUCTION">>

\* ---- the settlement of formatText

\* C27: formatText settles with a string or null: it never throws to its
\* caller, whatever the provider, the override, the model the provider
\* names and the outcome of the preset read.
C27_NeverRaises ==
    \A r \in Runs :
        /\ run[r].pc # "fmt_threw"
        /\ (run[r].kind = "formatText" /\ run[r].pc = "done") =>
              run[r].result.ret \in {"string", "null"}

\* ---- runs at the same time

\* The status text a run has set last, which the status bar shows while the
\* run is alone: lines 149, 186, 286.
OwnStatus(rec) ==
    CASE rec.pc \in {"await_upload", "await_url"} -> setStatus("Uploading to Mistral...")
      [] rec.pc \in {"await_process", "ocr_returned", "await_mkdir", "await_write",
                     "save_returned"} -> setStatus("Running OCR...")
      [] rec.pc \in {"await_preset", "await_fetch"} -> setStatus("Formatting...")
      [] OTHER -> statusBar

\* A run uses the preset that was selected when it was started.
UsesChosenPreset(rec) == rec.presetName # "" => rec.presetName = rec.chosenPreset

\* C22: with two runs in flight, under every interleaving, each run reads
\* the preset that was selected when it was started and the status bar
\* shows for it what it would show if the run were alone.
C22_RunsIndependent ==
    \A r \in DOMAIN run :
        /\ UsesChosenPreset(run[r])
        /\ statusBar = OwnStatus(run[r])

\* ---- the image-extraction option

\* The value of includeImageBase64 sent with the OCR process request.
RequestedImages(rec) ==
    \E k \in 1..Len(rec.calls) :
        rec.calls[k].op = "ocr.process" /\ rec.calls[k].includeImageBase64

\* C24: the images of the response are collected into the OCR result
\* exactly when the run requested inline images, whatever happens to the
\* settings while the request is in flight.
C24_CollectedWhenRequested ==
    \A r \in DOMAIN run :
        (run[r].pc = "ocr_returned" /\ run[r].ocrResponse.some) =>
            LET sent == { g \in ImagesSent(r) : AfterPrefix(g.imageBase64) # <<>> }
            IN  (Len(run[r].ocrResult.images) > 0) <=> (RequestedImages(run[r]) /\ sent # {})

\* ---- the document payload

\* C28: the bytes and the media type a run was started with are those of
\* one and the same file, under every interleaving of handleFile, the
\* readers' completions and the clicks.
C28_PayloadOfOneFile ==
    \A r \in DOMAIN run :
        run[r].kind \in {"processImage", "ocrOnly"} =>
            \E file \in Files :
                /\ run[r].base64Data = file.data
                /\ run[r].mimeType = file.type

====
